---- MODULE Spec2Model ----
(***************************************************************************)
(* Model of the Sogni n8n node (nodes/Sogni/Sogni.node.ts).                *)
(*                                                                         *)
(* Three groups of definitions:                                            *)
(*   - strings and identity allocation (normalizeAppId,                    *)
(*     generateUniqueAppId);                                               *)
(*   - the host-invoked calls: execute and the loadOptions methods, as     *)
(*     state machines whose steps are the await points of the code;        *)
(*   - safeDisconnect / promiseWithTimeout on one client object.           *)
(*                                                                         *)
(* Strings are sequences of one-character strings, so that trimming is     *)
(* computed and not assumed.  A generated identity `${prefix}-${uuid}` is  *)
(* the three-token sequence <<prefix, "-", uuid>>.                         *)
(***************************************************************************)
EXTENDS Integers, Sequences, FiniteSets, TLC

VARIABLES
    calls,      \* call id -> frame of one execute / loadOptions invocation
    issued,     \* UUIDs handed out by crypto.randomUUID so far
    cfg,        \* what the host may invoke in this scenario (fixed by Init)
    client,     \* the client object handed to safeDisconnect
    sd          \* frame of the running safeDisconnect call and its history

vars == <<calls, issued, cfg, client, sd>>

(***************************************************************************)
(* Bounds                                                                  *)
(***************************************************************************)
MaxCalls == 2      \* concurrently running host calls (SpecConc)
MaxItems == 2      \* input items of one execute run (Spec)
MaxUrls == 1       \* result URLs of one generation result
MaxModels == 1     \* entries of a model list
MaxLen == 2        \* characters of a credentials appId string
NumUuids == 3      \* distinct values crypto.randomUUID may return
MaxDisconnects == 2 \* successive safeDisconnect calls on one client (SpecDisc)
MaxDownloadUrls == 3 \* result URLs of one generation result (SpecDownload)
MaxOptionModels == 2 \* entries of the model list of an option lookup (SpecOptions)

(***************************************************************************)
(* Strings                                                                 *)
(***************************************************************************)
Chars == {"a", " "}
WhiteSpace == {" "}

RECURSIVE StringsUpTo(_)
StringsUpTo(n) ==
    IF n = 0 THEN {<<>>}
    ELSE LET shorter == StringsUpTo(n - 1)
         IN  shorter \cup {Append(s, ch) : s \in shorter, ch \in Chars}

RECURSIVE TrimStart(_)
TrimStart(s) ==
    IF s = <<>> THEN s
    ELSE IF Head(s) \in WhiteSpace THEN TrimStart(Tail(s)) ELSE s

RECURSIVE TrimEnd(_)
TrimEnd(s) ==
    IF s = <<>> THEN s
    ELSE IF s[Len(s)] \in WhiteSpace THEN TrimEnd(SubSeq(s, 1, Len(s) - 1)) ELSE s

\* String.prototype.trim
Trim(s) == TrimEnd(TrimStart(s))

(***************************************************************************)
(* JavaScript values: credentials.appId, node parameters, context.timeoutMs *)
(***************************************************************************)
Undefined == [t |-> "undefined", s |-> <<>>]
Null == [t |-> "null", s |-> <<>>]
Str(s) == [t |-> "string", s |-> s]
Bool(b) == [t |-> "boolean", b |-> b]
Num(n) == [t |-> "number", n |-> n]
\* a number with one decimal digit: Dec(7, 5) is 7.5
Dec(n, tenths) == [t |-> "number", n |-> n, tenths |-> tenths]
NaN == [t |-> "nan", n |-> 0]              \* typeof NaN === 'number'
\* an array value
Arr(items) == [t |-> "array", items |-> items]
\* an object that is no array
PlainObject == [t |-> "object", items |-> <<>>]

\* typeof v === 'number'
TypeofNumber(v) == v.t \in {"number", "nan"}
\* typeof v === 'number' && !Number.isNaN(v)
IsNumber(v) == TypeofNumber(v) /\ v.t # "nan"
\* v === null || v === undefined
Nullish(v) == v.t \in {"undefined", "null"}
\* !v
Falsy(v) ==
    \/ Nullish(v)
    \/ v.t = "nan"
    \/ v = Bool(FALSE)
    \/ v = Num(0)
    \/ v = Str(<<>>)

\* a || b
Or(a, b) == IF Falsy(a) THEN b ELSE a

\* variant: a || b || ... || z
RECURSIVE FirstTruthy(_)
FirstTruthy(vs) ==
    IF Len(vs) = 1 \/ ~Falsy(Head(vs)) THEN Head(vs) ELSE FirstTruthy(Tail(vs))

\* a ?? b ?? ... ?? z: the first operand that is neither null nor undefined,
\* the last operand when there is none
RECURSIVE Coalesce(_)
Coalesce(vs) ==
    IF Len(vs) = 1 \/ ~Nullish(Head(vs)) THEN Head(vs) ELSE Coalesce(Tail(vs))

UpperCase == <<"A", "B", "C", "D", "E", "F", "G", "H", "I", "J", "K", "L", "M",
               "N", "O", "P", "Q", "R", "S", "T", "U", "V", "W", "X", "Y", "Z">>
LowerCase == <<"a", "b", "c", "d", "e", "f", "g", "h", "i", "j", "k", "l", "m",
               "n", "o", "p", "q", "r", "s", "t", "u", "v", "w", "x", "y", "z">>

\* String.prototype.toLowerCase
toLowerCase(s) ==
    [k \in DOMAIN s |->
        IF \E u \in DOMAIN UpperCase : UpperCase[u] = s[k]
        THEN LowerCase[CHOOSE u \in DOMAIN UpperCase : UpperCase[u] = s[k]]
        ELSE s[k]]

\* String.prototype.includes
includes(s, sub) ==
    \E k \in 1..(Len(s) - Len(sub) + 1) : SubSeq(s, k, k + Len(sub) - 1) = sub

\* String.prototype.startsWith
startsWith(s, prefix) == Len(s) >= Len(prefix) /\ SubSeq(s, 1, Len(prefix)) = prefix

\* String(n) of a small index
DecimalDigits == <<"1", "2", "3", "4", "5", "6", "7", "8", "9">>
IndexString(n) == IF n = 0 THEN "0" ELSE DecimalDigits[n]

CredAppIds == {Undefined, Null} \cup {Str(s) : s \in StringsUpTo(MaxLen)}

(***************************************************************************)
(* Identity allocation                                                     *)
(***************************************************************************)
\* normalizeAppId: undefined for a non-string, an empty or a blank string,
\* otherwise the trimmed string.
normalizeAppId(appId) ==
    IF appId.t # "string" THEN Undefined
    ELSE LET trimmed == Trim(appId.s)
         IN  IF Len(trimmed) # 0 THEN Str(trimmed) ELSE Undefined

UuidNames == <<"uuid1", "uuid2", "uuid3", "uuid4", "uuid5", "uuid6">>
Uuids == {UuidNames[k] : k \in 1..NumUuids}

\* crypto.randomUUID: a version-4 UUID out of the pool; a value is not handed
\* out twice.
randomUUID(pool, used) == pool \ used

\* variant: an identity built from the prefix and the clock only
generateAppIdFromClock(prefix, uuid) == Str(<<prefix, "-", "1762300800000">>)

\* generateUniqueAppId: `${prefix}-${randomUUID()}`
generateUniqueAppId(prefix, uuid) == Str(<<prefix, "-", uuid>>)

\* execute: userProvidedAppId ?? generateUniqueAppId('n8n-sogni')
ExecuteAppId(credAppId, uuid) ==
    LET userProvidedAppId == normalizeAppId(credAppId)
    IN  IF userProvidedAppId # Undefined THEN userProvidedAppId
        ELSE generateUniqueAppId("n8n-sogni", uuid)

\* loadOptions: generateUniqueAppId('n8n-sogni-loadopts')
LoadOptionsAppId(credAppId, uuid) == generateUniqueAppId("n8n-sogni-loadopts", uuid)

\* whether execute draws a UUID for these credentials
ExecuteGenerates(credAppId) == normalizeAppId(credAppId) = Undefined

(***************************************************************************)
(* Host calls: frames                                                      *)
(***************************************************************************)
CallIds == 1..MaxCalls

LoadOptionsKinds == {"getModelOptions", "getVideoModelOptions", "getImageEditModelOptions"}

\* the resource/operation selectors dispatched by execute; "other" is any
\* selector that matches none of the branches
ItemKinds == {"imageGenerate", "imageEdit", "videoGenerate", "videoEstimateCost",
              "modelGetAll", "modelGet", "accountGetBalance", "other"}
GenerateKinds == {"imageGenerate", "imageEdit", "videoGenerate"}
QueryKinds == {"videoEstimateCost", "modelGetAll", "modelGet", "accountGetBalance"}

\* the client method an item kind calls
ClientOp(kind) ==
    CASE kind = "imageGenerate" -> "createImageProject"
      [] kind = "imageEdit" -> "createImageEditProject"
      [] kind = "videoGenerate" -> "createVideoProject"
      [] kind = "videoEstimateCost" -> "estimateVideoCost"
      [] kind = "modelGetAll" -> "getAvailableModels"
      [] kind = "modelGet" -> "getModel"
      [] kind = "accountGetBalance" -> "getBalance"
      [] OTHER -> "none"

RECURSIVE SeqsUpTo(_, _)
SeqsUpTo(S, n) ==
    IF n = 0 THEN {<<>>}
    ELSE LET shorter == SeqsUpTo(S, n - 1)
         IN  shorter \cup {Append(s, x) : s \in shorter, x \in S}

\* thrown values
NoError == [t |-> "none", message |-> ""]
Err(m) == [t |-> "Error", message |-> m]
NonError == [t |-> "value", message |-> ""]      \* a thrown value that is not an Error

TimeoutError == Err("timed out")
SubmitErrors == {TimeoutError, Err("job failed"), NonError}
ParameterErrors == {Err("Could not get parameter")}
QueryErrors == {Err("request failed")}

NoCur == [urls |-> 0, u |-> 0, binary |-> {}, download |-> Undefined, jobs |-> Undefined]
\* the entry of the input history for an item that read no generation parameters
NoInput == [modelId |-> <<>>]

\* no client object
NoClientRef == [call |-> 0, n |-> 0]

\* variant: one client object kept at module level and handed to every call
SharedClient(c, n) == [call |-> 0, n |-> 1]

\* new SogniClientWrapper({ ... }): a fresh object, the n-th that call c constructs
NewClient(c, n) == [call |-> c, n |-> n]

IdleCall ==
    [kind |-> "none", pc |-> "idle", credAppId |-> Undefined, appId |-> Undefined,
     hasClient |-> FALSE, cof |-> FALSE, items |-> <<>>, i |-> 0, cur |-> NoCur,
     returnData |-> <<>>, ops |-> <<>>, thrown |-> NoError, discTimeoutMs |-> 0,
     result |-> "pending",
     clientRef |-> NoClientRef, \* const client: the client object the call holds
     constructed |-> 0,     \* history: clients constructed by this call
     raised |-> <<>>,       \* history: the errors raised by item processing
     inputs |-> <<>>,       \* history: the parameters and binaries read per item
     log |-> <<>>,          \* history: the download attempts and their outcomes
     results |-> <<>>,      \* history: the job list of the result of each submit
     models |-> <<>>,       \* history: the model list an option lookup received
     options |-> <<>>]      \* the option list an option lookup returns

\* records of returnData
SuccessRecord(i, kind, urls, binary) ==
    [item |-> i, type |-> "success", kind |-> kind, error |-> "", urls |-> urls, binary |-> binary,
     jobs |-> Undefined]
\* { json: { error: error instanceof Error ? error.message : 'Unknown error' } }
ErrorRecord(i, e) ==
    [item |-> i, type |-> "error", kind |-> "", urls |-> 0, binary |-> {},
     error |-> IF e.t = "Error" THEN e.message ELSE "Unknown error", jobs |-> Undefined]

\* variant: returnData.unshift(record)
Unshift(returnData, record) == <<record>> \o returnData

\* returnData.push(record)
Push(returnData, record) == Append(returnData, record)

\* for (let i = 0; ...; i++)
NextIndex(i) == i + 1

\* an entry of the log of operations issued on the call's client
Op(cl, name, i) == [op |-> name, item |-> i, client |-> cl]

\* variant: the disconnect follows the loop instead of sitting in a finally
\* block, so a rethrown error leaves execute directly
CatchThenLeave(f, e) ==
    IF f.cof
    THEN [f EXCEPT !.returnData = Push(@, ErrorRecord(f.i, e)),
                   !.i = NextIndex(@), !.cur = NoCur, !.pc = "loop"]
    ELSE [f EXCEPT !.thrown = e, !.cur = NoCur, !.pc = "done", !.result = "threw"]

\* variant: the error record is pushed whatever continueOnFail() says
CatchAlwaysContinues(f, e) ==
    [f EXCEPT !.returnData = Push(@, ErrorRecord(f.i, e)),
              !.i = NextIndex(@), !.cur = NoCur, !.pc = "loop"]

\* variant: a timeout ends the run even with continueOnFail
CatchAbortsOnTimeout(f, e) ==
    IF f.cof /\ e.message # "timed out"
    THEN [f EXCEPT !.returnData = Push(@, ErrorRecord(f.i, e)),
                   !.i = NextIndex(@), !.cur = NoCur, !.pc = "loop"]
    ELSE [f EXCEPT !.thrown = e, !.cur = NoCur, !.pc = "finally"]

\* catch (error) of the item loop: with continueOnFail an error record is
\* pushed and the loop continues, otherwise the error is rethrown and control
\* reaches the finally block of execute
CatchItemError(f, e) ==
    IF f.cof
    THEN [f EXCEPT !.returnData = Push(@, ErrorRecord(f.i, e)),
                   !.i = NextIndex(@), !.cur = NoCur, !.pc = "loop"]
    ELSE [f EXCEPT !.thrown = e, !.cur = NoCur, !.pc = "finally"]

\* processing of the current item raises e
Throw(f, e) == CatchItemError([f EXCEPT !.raised = Append(@, [item |-> f.i, e |-> e])], e)

\* an item ends with its record(s) pushed
FinishItem(f, records) ==
    [f EXCEPT !.returnData = @ \o records, !.i = NextIndex(@), !.cur = NoCur, !.pc = "loop"]

(***************************************************************************)
(* Parameters of one item: resolution of the request, named binaries       *)
(***************************************************************************)
\* new NodeOperationError(this.getNode(), message, { itemIndex: i }); the
\* message is a template and `property` the name spliced into it
NodeOperationError(message, property, i) ==
    [t |-> "Error", message |-> message, property |-> property, itemIndex |-> i]

\* the names read from the parameter collections
ParameterNames ==
    {"network", "numberOfMedia", "numberOfImages", "steps", "guidance", "negativePrompt",
     "stylePrompt", "seed", "tokenType", "timeout", "downloadImages", "downloadVideos",
     "outputFormat", "sizePreset", "width", "height", "enableControlNet", "controlNetType",
     "controlNetImageProperty", "controlNetStrength", "controlNetMode",
     "controlNetGuidanceStart", "controlNetGuidanceEnd", "frames", "fps",
     "referenceImageProperty", "referenceImageEndProperty", "referenceAudioProperty",
     "referenceVideoProperty", "sam2CoordinatesJson", "enableVideoControlNet",
     "videoControlNetType", "videoControlNetStrength"}

\* {}: every property reads as undefined
EmptyObject == [n \in ParameterNames |-> Undefined]

\* (additional.group as any) || {}
OrEmptyObject(group) == IF group = Undefined THEN EmptyObject ELSE group

\* variant: the binary is taken to be there
HasBinaryUnchecked(binary, propertyName) == TRUE

\* items[i].binary?.[propertyName] is truthy
HasBinary(binary, propertyName) == propertyName.t = "string" /\ propertyName.s \in binary

\* typeof timeoutInput === 'number' && !Number.isNaN(timeoutInput) ? timeoutInput
\*   : network === 'fast' ? 60_000 : 600_000
ImageTimeoutMs(timeoutInput, network) ==
    IF IsNumber(timeoutInput) THEN timeoutInput
    ELSE IF network = Str(<<"fast">>) THEN Num(60000) ELSE Num(600000)

\* variant: the video branch falls back to the image defaults
VideoTimeoutAsImage(timeoutInput, network) == ImageTimeoutMs(timeoutInput, network)

\* ... : videoNetwork === 'fast' ? 120_000 : 1200_000
VideoTimeoutMs(timeoutInput, network) ==
    IF IsNumber(timeoutInput) THEN timeoutInput
    ELSE IF network = Str(<<"fast">>) THEN Num(120000) ELSE Num(1200000)

NoRequest == [modelId |-> <<>>]
\* what the synchronous part of a branch hands on: the error it threw, or the
\* request for the client and the resolved download flag
Thrown(e) == [error |-> e, request |-> NoRequest, download |-> Undefined]
Built(request, download) == [error |-> NoError, request |-> request, download |-> download]

\* image / generate: additionalFields with its groups and the flat legacy
\* shape, the project config, the control image
ImageGenerateRequest(input, i) ==
    LET additional == input.additional
        gen == OrEmptyObject(additional.generationSettings)
        out == OrEmptyObject(additional.output)
        adv == OrEmptyObject(additional.advanced)
        cn == OrEmptyObject(additional.controlNet)
        legacy == additional.flat
        network == Coalesce(<<input.network, legacy.network, Str(<<"fast">>)>>)
        timeoutInput == Coalesce(<<adv.timeout, legacy.timeout>>)
        downloadImages == Coalesce(<<out.downloadImages, legacy.downloadImages, Bool(TRUE)>>)
        projectConfig ==
            [modelId |-> input.modelId,
             negativePrompt |-> Coalesce(<<gen.negativePrompt, legacy.negativePrompt, Str(<<>>)>>),
             stylePrompt |-> Coalesce(<<gen.stylePrompt, legacy.stylePrompt, Str(<<>>)>>),
             steps |-> Coalesce(<<gen.steps, legacy.steps, Num(20)>>),
             guidance |-> Coalesce(<<gen.guidance, legacy.guidance, Dec(7, 5)>>),
             numberOfMedia |-> Coalesce(<<gen.numberOfMedia, legacy.numberOfMedia,
                                          legacy.numberOfImages, Num(1)>>),
             network |-> network,
             tokenType |-> Coalesce(<<adv.tokenType, legacy.tokenType, Str(<<"spark">>)>>),
             outputFormat |-> Coalesce(<<out.outputFormat, legacy.outputFormat, Str(<<"png">>)>>),
             sizePreset |-> Coalesce(<<out.sizePreset, legacy.sizePreset>>),
             width |-> Coalesce(<<out.width, legacy.width>>),
             height |-> Coalesce(<<out.height, legacy.height>>),
             seed |-> Coalesce(<<gen.seed, legacy.seed>>),
             timeout |-> ImageTimeoutMs(timeoutInput, network),
             controlNet |-> Undefined]
        enableControlNet == Coalesce(<<cn.enableControlNet, legacy.enableControlNet, Bool(FALSE)>>)
        imagePropertyName == Coalesce(<<cn.controlNetImageProperty,
                                        legacy.controlNetImageProperty, Str(<<"d", "a", "t", "a">>)>>)
    IN  IF Falsy(enableControlNet) THEN Built(projectConfig, downloadImages)
        ELSE IF ~HasBinary(input.binary, imagePropertyName)
        THEN Thrown(NodeOperationError(
                 "No binary data found in property \"${imagePropertyName}\". Please provide a control image.",
                 imagePropertyName, i))
        ELSE Built([projectConfig EXCEPT !.controlNet =
                      [name |-> Coalesce(<<cn.controlNetType, legacy.controlNetType>>),
                       image |-> imagePropertyName,
                       strength |-> Coalesce(<<cn.controlNetStrength, legacy.controlNetStrength,
                                               Dec(0, 5)>>),
                       mode |-> Coalesce(<<cn.controlNetMode, legacy.controlNetMode,
                                           Str(<<"balanced">>)>>),
                       guidanceStart |-> Coalesce(<<cn.controlNetGuidanceStart,
                                                    legacy.controlNetGuidanceStart, Num(0)>>),
                       guidanceEnd |-> Coalesce(<<cn.controlNetGuidanceEnd,
                                                  legacy.controlNetGuidanceEnd, Num(1)>>)]],
                   downloadImages)

\* variant: the marker is looked for without lower-casing the model id
IsLightningCaseSensitive(modelId) ==
    includes(modelId, <<"l", "i", "g", "h", "t", "n", "i", "n", "g">>)

\* modelId.toLowerCase().includes('lightning')
IsLightningModel(modelId) ==
    includes(toLowerCase(modelId), <<"l", "i", "g", "h", "t", "n", "i", "n", "g">>)

\* contextImageNProperty && contextImageNProperty.trim(), then
\* items[i].binary?.[contextImageNProperty]: the buffers pushed for an
\* optional context image
OptionalContextImage(binary, property) ==
    IF ~Falsy(property) /\ Trim(property.s) # <<>> /\ HasBinary(binary, property)
    THEN <<property>> ELSE <<>>

\* image / edit: imageEditAdditionalFields, the model-based steps and
\* guidance, the context images, the edit project config
ImageEditRequest(input, i) ==
    LET additional == input.additional
        gen == OrEmptyObject(additional.generationSettings)
        out == OrEmptyObject(additional.output)
        adv == OrEmptyObject(additional.advanced)
        stepsInput == gen.steps
        guidanceInput == gen.guidance
        timeoutInput == adv.timeout
        downloadImages == Coalesce(<<out.downloadImages, Bool(TRUE)>>)
        isLightningModel == IsLightningModel(input.modelId)
        steps == IF IsNumber(stepsInput) THEN stepsInput
                 ELSE IF isLightningModel THEN Num(4) ELSE Num(20)
        guidance == IF IsNumber(guidanceInput) THEN guidanceInput
                    ELSE IF isLightningModel THEN Num(1) ELSE Num(4)
        contextImages ==
            <<input.contextImage1Property>>
            \o OptionalContextImage(input.binary, input.contextImage2Property)
            \o OptionalContextImage(input.binary, input.contextImage3Property)
    IN  IF ~HasBinary(input.binary, input.contextImage1Property)
        THEN Thrown(NodeOperationError(
                 "No binary data found in property \"${contextImage1Property}\". Please provide a context image.",
                 input.contextImage1Property, i))
        ELSE Built([modelId |-> input.modelId,
                    negativePrompt |-> Coalesce(<<gen.negativePrompt, Str(<<>>)>>),
                    stylePrompt |-> Coalesce(<<gen.stylePrompt, Str(<<>>)>>),
                    steps |-> steps,
                    guidance |-> guidance,
                    numberOfMedia |-> Coalesce(<<gen.numberOfMedia, Num(1)>>),
                    network |-> input.network,
                    tokenType |-> Coalesce(<<adv.tokenType, Str(<<"spark">>)>>),
                    outputFormat |-> Coalesce(<<out.outputFormat, Str(<<"png">>)>>),
                    sizePreset |-> out.sizePreset,
                    width |-> out.width,
                    height |-> out.height,
                    seed |-> gen.seed,
                    contextImages |-> contextImages,
                    timeout |-> ImageTimeoutMs(timeoutInput, input.network)],
                   downloadImages)

\* Math.round(num / den) for den > 0: the nearest integer, a half rounds up
MathRound(num, den) == (2 * num + den) \div (2 * den)

\* Math.max(a, b) of two integers
MathMax(a, b) == IF a >= b THEN a ELSE b

\* variant: Math.ceil(requestedFrames / 8) in place of the rounding of
\* (requestedFrames - 1) / 8
QuantizeFramesCeilOfCount(requestedFrames) ==
    IF requestedFrames.t = "nan" THEN NaN
    ELSE Num(MathMax(9, ((requestedFrames.n + 7) \div 8) * 8 + 1))

\* Math.max(9, Math.round((requestedFrames - 1) / 8) * 8 + 1); NaN when
\* requestedFrames is NaN
QuantizeFrames(requestedFrames) ==
    IF requestedFrames.t = "nan" THEN NaN
    ELSE Num(MathMax(9, MathRound(requestedFrames.n - 1, 8) * 8 + 1))

\* videoModelId.toLowerCase().startsWith('ltx2-')
IsLtx2Model(modelId) == startsWith(toLowerCase(modelId), <<"l", "t", "x", "2", "-">>)

\* the labels of the four reference bindings, in the order they are read
ReferenceBindings ==
    <<[name |-> "referenceImageProperty", label |-> "reference image"],
      [name |-> "referenceImageEndProperty", label |-> "reference end image"],
      [name |-> "referenceAudioProperty", label |-> "reference audio"],
      [name |-> "referenceVideoProperty", label |-> "reference video"]>>

\* (videoInputs.xProperty ?? '').trim()
ReferenceProperty(videoInputs, name) == Str(Trim(Coalesce(<<videoInputs[name], Str(<<>>)>>).s))

\* readOptionalBinaryProperty(propertyName, label): undefined for an empty
\* name, an error for a named binary that is absent, the buffer otherwise
readOptionalBinaryProperty(binary, propertyName, label, i) ==
    IF propertyName.s = <<>> THEN [error |-> NoError, value |-> Undefined]
    ELSE IF ~HasBinary(binary, propertyName)
    THEN [error |-> NodeOperationError(
                       "No binary data found in property \"${propertyName}\" for ${label}.",
                       propertyName, i),
          value |-> Undefined]
    ELSE [error |-> NoError, value |-> propertyName]

\* Number(v) of a value out of a parsed JSON text
ToNumber(v) ==
    CASE v.t = "number" -> v
      [] v.t = "null" -> Num(0)
      [] v.t = "boolean" -> (IF v.b THEN Num(1) ELSE Num(0))
      [] v = Str(<<>>) -> Num(0)
      [] v = Str(<<"0.5">>) -> Dec(0, 5)
      [] OTHER -> NaN

\* Number.isFinite(v)
IsFinite(v) == v.t = "number"

\* a point of a SAM2 coordinates list
Point(x, y) == [x |-> x, y |-> y]

\* the JSON texts a SAM2 coordinates parameter may hold, with the value
\* JSON.parse gives for each; "SyntaxError" where it throws
JsonTexts ==
    [text \in {<<"not json">>, <<"{}">>, <<"5">>, <<"[]">>,
               <<"[{\"x\":0.5,\"y\":0.5}]">>,
               <<"[{\"x\":0.5,\"y\":0.5},{\"x\":\"a\",\"y\":1}]">>,
               <<"[{\"y\":1}]">>,
               <<"[{\"x\":null,\"y\":null}]">>,
               <<"[{\"x\":\"0.5\",\"y\":\"0.5\"}]">>} |->
       CASE text = <<"not json">> -> [t |-> "SyntaxError", items |-> <<>>]
         [] text = <<"{}">> -> PlainObject
         [] text = <<"5">> -> [t |-> "number", items |-> <<>>]
         [] text = <<"[]">> -> Arr(<<>>)
         [] text = <<"[{\"x\":0.5,\"y\":0.5}]">> -> Arr(<<Point(Dec(0, 5), Dec(0, 5))>>)
         [] text = <<"[{\"x\":0.5,\"y\":0.5},{\"x\":\"a\",\"y\":1}]">> ->
              Arr(<<Point(Dec(0, 5), Dec(0, 5)), Point(Str(<<"a">>), Num(1))>>)
         [] text = <<"[{\"y\":1}]">> -> Arr(<<Point(Undefined, Num(1))>>)
         [] text = <<"[{\"x\":null,\"y\":null}]">> -> Arr(<<Point(Null, Null)>>)
         [] text = <<"[{\"x\":\"0.5\",\"y\":\"0.5\"}]">> ->
              Arr(<<Point(Str(<<"0.5">>), Str(<<"0.5">>))>>)]

\* JSON.parse(text)
JSONParse(text) == JsonTexts[text]

\* variant: the coordinates are passed on as parsed, without validation
Sam2Unvalidated(sam2CoordinatesJson, i) ==
    [error |-> NoError,
     value |-> IF sam2CoordinatesJson = <<>> THEN Undefined
               ELSE JSONParse(sam2CoordinatesJson)]

\* the SAM2 coordinates of the request: undefined for an empty text, an error
\* for a text that does not parse, for a value that is no non-empty array,
\* and for a point whose Number(x) or Number(y) is not finite
Sam2Coordinates(sam2CoordinatesJson, i) ==
    IF sam2CoordinatesJson = <<>> THEN [error |-> NoError, value |-> Undefined]
    ELSE LET parsed == JSONParse(sam2CoordinatesJson) IN
         IF parsed.t = "SyntaxError"
         THEN [error |-> NodeOperationError(
                            "SAM2 Coordinates must be valid JSON, e.g. [{\"x\":0.5,\"y\":0.5}]",
                            Undefined, i),
               value |-> Undefined]
         ELSE IF parsed.t # "array" \/ Len(parsed.items) = 0
         THEN [error |-> NodeOperationError(
                            "SAM2 Coordinates must be a non-empty JSON array.", Undefined, i),
               value |-> Undefined]
         ELSE IF \E k \in DOMAIN parsed.items :
                    \/ ~IsFinite(ToNumber(parsed.items[k].x))
                    \/ ~IsFinite(ToNumber(parsed.items[k].y))
         THEN [error |-> NodeOperationError(
                            "SAM2 coordinate at index ${pointIndex} must include numeric x and y values.",
                            Undefined, i),
               value |-> Undefined]
         ELSE [error |-> NoError,
               value |-> Arr([k \in DOMAIN parsed.items |->
                                 Point(ToNumber(parsed.items[k].x),
                                       ToNumber(parsed.items[k].y))])]

\* video / generate: videoAdditionalFields, the frame count, the reference
\* assets, the SAM2 coordinates, ControlNet, the video project config
VideoGenerateRequest(input, i) ==
    LET videoAdditional == input.additional
        videoSettings == OrEmptyObject(videoAdditional.videoSettings)
        videoInputs == OrEmptyObject(videoAdditional.inputs)
        videoWorkflow == OrEmptyObject(videoAdditional.workflowControls)
        videoOutput == OrEmptyObject(videoAdditional.output)
        videoAdvanced == OrEmptyObject(videoAdditional.advanced)
        requestedFrames == Coalesce(<<videoSettings.frames, Num(30)>>)
        frames == IF IsLtx2Model(input.modelId) THEN QuantizeFrames(requestedFrames)
                  ELSE requestedFrames
        downloadVideos == Coalesce(<<videoOutput.downloadVideos, Bool(TRUE)>>)
        timeoutInput == videoAdvanced.timeout
        refs == [k \in DOMAIN ReferenceBindings |->
                    readOptionalBinaryProperty(
                        input.binary,
                        ReferenceProperty(videoInputs, ReferenceBindings[k].name),
                        ReferenceBindings[k].label, i)]
        failed == {k \in DOMAIN refs : refs[k].error # NoError}
        sam2 == Sam2Coordinates(
                    Trim(Coalesce(<<videoWorkflow.sam2CoordinatesJson, Str(<<>>)>>).s), i)
        enableVideoControlNet == Coalesce(<<videoWorkflow.enableVideoControlNet, Bool(FALSE)>>)
        videoControlNetType == Coalesce(<<videoWorkflow.videoControlNetType, Str(<<"canny">>)>>)
        videoControlNetStrength == videoWorkflow.videoControlNetStrength
    IN  IF failed # {}
        THEN Thrown(refs[CHOOSE k \in failed : \A j \in failed : k <= j].error)
        ELSE IF sam2.error # NoError THEN Thrown(sam2.error)
        ELSE Built([modelId |-> input.modelId,
                    negativePrompt |-> Coalesce(<<videoSettings.negativePrompt, Str(<<>>)>>),
                    stylePrompt |-> Coalesce(<<videoSettings.stylePrompt, Str(<<>>)>>),
                    frames |-> frames,
                    fps |-> Coalesce(<<videoSettings.fps, Num(30)>>),
                    steps |-> Coalesce(<<videoSettings.steps, Num(20)>>),
                    guidance |-> Coalesce(<<videoSettings.guidance, Dec(7, 5)>>),
                    numberOfMedia |-> Coalesce(<<videoSettings.numberOfMedia, Num(1)>>),
                    network |-> input.network,
                    tokenType |-> Coalesce(<<videoAdvanced.tokenType, Str(<<"spark">>)>>),
                    outputFormat |-> Coalesce(<<videoOutput.outputFormat, Str(<<"mp4">>)>>),
                    width |-> Coalesce(<<videoOutput.width, Num(512)>>),
                    height |-> Coalesce(<<videoOutput.height, Num(512)>>),
                    seed |-> videoSettings.seed,
                    referenceImage |-> refs[1].value,
                    referenceImageEnd |-> refs[2].value,
                    referenceAudio |-> refs[3].value,
                    referenceVideo |-> refs[4].value,
                    sam2Coordinates |-> sam2.value,
                    controlNet |-> IF Falsy(enableVideoControlNet) THEN Undefined
                                   ELSE [name |-> videoControlNetType,
                                         strength |-> videoControlNetStrength],
                    timeout |-> VideoTimeoutMs(timeoutInput, input.network)],
                   downloadVideos)

\* the synchronous part of a generation branch of execute
BuildRequest(kind, input, i) ==
    CASE kind = "imageGenerate" -> ImageGenerateRequest(input, i)
      [] kind = "imageEdit" -> ImageEditRequest(input, i)
      [] kind = "videoGenerate" -> VideoGenerateRequest(input, i)

(***************************************************************************)
(* The items a scenario feeds to execute                                   *)
(***************************************************************************)
\* the keys the binary store of an item may hold
StoreKeys == {<<"a">>, <<" ", "a">>, <<"d", "a", "t", "a">>}
BinaryStores == SUBSET StoreKeys

\* additionalFields without any group and without any flat field
NoAdditional ==
    [generationSettings |-> Undefined, output |-> Undefined, advanced |-> Undefined,
     controlNet |-> Undefined, flat |-> EmptyObject]
\* imageEditAdditionalFields without any group
NoEditAdditional ==
    [generationSettings |-> Undefined, output |-> Undefined, advanced |-> Undefined]
\* videoAdditionalFields without any group
NoVideoAdditional ==
    [videoSettings |-> Undefined, inputs |-> Undefined, workflowControls |-> Undefined,
     output |-> Undefined, advanced |-> Undefined]

\* a parameter collection that holds one property
Only(name, v) == [EmptyObject EXCEPT ![name] = v]

\* items with the parameters left at their defaults and the required binary in place
PlainImage ==
    [modelId |-> <<"f", "l", "u", "x">>, network |-> Str(<<"fast">>),
     additional |-> NoAdditional, binary |-> {}]
PlainEdit ==
    [modelId |-> <<"q", "w", "e", "n">>, network |-> Str(<<"fast">>),
     contextImage1Property |-> Str(<<"a">>), contextImage2Property |-> Str(<<>>),
     contextImage3Property |-> Str(<<>>), additional |-> NoEditAdditional,
     binary |-> {<<"a">>}]
PlainVideo ==
    [modelId |-> <<"w", "a", "n">>, network |-> Str(<<"fast">>),
     additional |-> NoVideoAdditional, binary |-> {}]

\* per generation kind: the plain item
PlainInputs ==
    [k \in GenerateKinds |->
       CASE k = "imageGenerate" -> {PlainImage}
         [] k = "imageEdit" -> {PlainEdit}
         [] k = "videoGenerate" -> {PlainVideo}]

\* per generation kind: the plain item, with the download flag left out,
\* switched off and switched on
DownloadInputs ==
    [k \in GenerateKinds |->
       CASE k = "imageGenerate" ->
              {PlainImage} \cup {[PlainImage EXCEPT !.additional.output = Only("downloadImages", Bool(b))]
                                   : b \in BOOLEAN}
         [] k = "imageEdit" ->
              {PlainEdit} \cup {[PlainEdit EXCEPT !.additional.output = Only("downloadImages", Bool(b))]
                                  : b \in BOOLEAN}
         [] k = "videoGenerate" ->
              {PlainVideo} \cup {[PlainVideo EXCEPT !.additional.output = Only("downloadVideos", Bool(b))]
                                   : b \in BOOLEAN}]

\* the values a property-name parameter may hold
PropertyStrings == {Str(s) : s \in StringsUpTo(MaxLen)}

\* per generation kind, the items that differ in the binaries they name and
\* in the binaries their store holds
AssetInputs ==
    [k \in GenerateKinds |->
       CASE k = "imageGenerate" ->
              {[PlainImage EXCEPT
                  !.additional.controlNet =
                      [EmptyObject EXCEPT !.enableControlNet = enable,
                                          !.controlNetImageProperty = property],
                  !.additional.flat = legacy,
                  !.binary = binary] :
               enable \in {Undefined, Bool(TRUE), Bool(FALSE)},
               property \in {Undefined} \cup PropertyStrings,
               legacy \in {EmptyObject, Only("enableControlNet", Bool(TRUE)),
                           Only("controlNetImageProperty", Str(<<"a">>))},
               binary \in BinaryStores}
         [] k = "imageEdit" ->
              {[PlainEdit EXCEPT !.contextImage1Property = p1, !.contextImage2Property = p2,
                                 !.binary = binary] :
               p1 \in PropertyStrings, p2 \in PropertyStrings, binary \in BinaryStores}
              \cup
              {[PlainEdit EXCEPT !.contextImage3Property = p3, !.binary = binary] :
               p3 \in PropertyStrings, binary \in BinaryStores}
         [] k = "videoGenerate" ->
              {[PlainVideo EXCEPT
                  !.additional.inputs = Only(ReferenceBindings[b].name, property),
                  !.binary = binary] :
               b \in DOMAIN ReferenceBindings,
               property \in {Undefined, Null} \cup PropertyStrings,
               binary \in BinaryStores}
              \cup
              {[PlainVideo EXCEPT
                  !.additional.inputs =
                      [n \in ParameterNames |->
                          IF \E b \in DOMAIN ReferenceBindings : ReferenceBindings[b].name = n
                          THEN Str(<<"a">>) ELSE Undefined],
                  !.binary = binary] :
               binary \in BinaryStores}
              \* the SAM2 coordinates text: absent, empty, blank, and each JSON text
              \cup
              {[PlainVideo EXCEPT
                  !.additional.workflowControls = Only("sam2CoordinatesJson", text)] :
               text \in {Undefined, Null, Str(<<>>), Str(<<" ">>)}
                        \cup {Str(t) : t \in DOMAIN JsonTexts}
                        \cup {Str(<<" ">> \o t \o <<" ">>) : t \in {<<"[]">>}}}]

\* typeOptions of the video parameter 'frames'
FramesMinValue == 10
FramesMaxValue == 120

\* the values a numeric, a boolean and a string parameter may hold in a source
NumericValues == {Undefined, Null, NaN, Num(0), Num(7)}
BooleanValues == {Undefined, Null, Bool(FALSE), Bool(TRUE)}
StringValues == {Undefined, Null, Str(<<>>), Str(<<"a">>)}
NetworkValues == {Undefined, Str(<<"fast">>), Str(<<"relaxed">>)}

NumericFields ==
    {"numberOfMedia", "steps", "guidance", "seed", "timeout", "width", "height",
     "controlNetStrength", "controlNetGuidanceStart", "controlNetGuidanceEnd", "frames", "fps"}
BooleanFields == {"downloadImages", "downloadVideos", "enableControlNet"}
FieldValues(name) ==
    IF name \in NumericFields THEN NumericValues
    ELSE IF name \in BooleanFields THEN BooleanValues ELSE StringValues

\* the group of additionalFields that holds a field of image / generate
ImageFieldGroups ==
    [numberOfMedia |-> "generationSettings", steps |-> "generationSettings",
     guidance |-> "generationSettings", negativePrompt |-> "generationSettings",
     stylePrompt |-> "generationSettings", seed |-> "generationSettings",
     tokenType |-> "advanced", timeout |-> "advanced",
     downloadImages |-> "output", outputFormat |-> "output", sizePreset |-> "output",
     width |-> "output", height |-> "output",
     enableControlNet |-> "controlNet", controlNetType |-> "controlNet",
     controlNetImageProperty |-> "controlNet", controlNetStrength |-> "controlNet",
     controlNetMode |-> "controlNet", controlNetGuidanceStart |-> "controlNet",
     controlNetGuidanceEnd |-> "controlNet"]

\* a group that holds one property; no group at all for undefined
GroupWith(name, v) == IF v = Undefined THEN Undefined ELSE Only(name, v)

\* image / generate with one field set in its group and in the flat shape
VaryImage(name, grouped, flat) ==
    [PlainImage EXCEPT !.additional[ImageFieldGroups[name]] = GroupWith(name, grouped),
                       !.additional.flat = Only(name, flat)]

\* the model ids of image / edit: with the marker in lower, upper and mixed
\* case, without it, and with all but its last letter
EditModelIds ==
    {<<"x", "-", "l", "i", "g", "h", "t", "n", "i", "n", "g">>,
     <<"L", "I", "G", "H", "T", "N", "I", "N", "G", "-", "x">>,
     <<"L", "i", "g", "h", "t", "N", "i", "n", "g">>,
     <<"q", "w", "e", "n">>,
     <<"l", "i", "g", "h", "t", "n", "i", "n">>}

\* the model ids of video / generate: with the prefix in lower and upper
\* case, without it, with it elsewhere than at the start, without its dash
VideoModelIds ==
    {<<"l", "t", "x", "2", "-", "a">>,
     <<"L", "T", "X", "2", "-", "a">>,
     <<"w", "a", "n">>,
     <<"a", "-", "l", "t", "x", "2", "-">>,
     <<"l", "t", "x", "2">>}

\* per generation kind, the items that differ in the sources of one field
\* (two for the steps and guidance of an edit), with the network tier and
\* the model id the defaults depend on
ResolveInputs ==
    [k \in GenerateKinds |->
       CASE k = "imageGenerate" ->
              \* a field outside the ControlNet group
              UNION {{VaryImage(name, grouped, flat) :
                         grouped \in FieldValues(name), flat \in FieldValues(name)} :
                     name \in {n \in DOMAIN ImageFieldGroups :
                                  ImageFieldGroups[n] # "controlNet"}}
              \* the timeout under every network tier, top-level and flat
              \cup {[VaryImage("timeout", grouped, flat) EXCEPT
                        !.network = top, !.additional.flat.network = legacyNetwork] :
                     grouped \in NumericValues, flat \in NumericValues,
                     top \in NetworkValues, legacyNetwork \in NetworkValues}
              \* the ControlNet switch, with and without the control image
              \cup {[VaryImage("enableControlNet", grouped, flat) EXCEPT !.binary = binary] :
                     grouped \in BooleanValues, flat \in BooleanValues,
                     binary \in {{}, StoreKeys}}
              \* a field of the ControlNet group, ControlNet enabled
              \cup UNION {{[VaryImage(name, grouped, flat) EXCEPT
                               !.additional.controlNet =
                                   [Only(name, grouped) EXCEPT !.enableControlNet = Bool(TRUE)],
                               !.binary = StoreKeys] :
                            grouped \in FieldValues(name), flat \in FieldValues(name)} :
                         name \in {n \in DOMAIN ImageFieldGroups :
                                      /\ ImageFieldGroups[n] = "controlNet"
                                      /\ n # "enableControlNet"}}
              \* the number of outputs under its two names, grouped and flat
              \cup {[PlainImage EXCEPT
                        !.additional.generationSettings =
                            [EmptyObject EXCEPT !.numberOfMedia = groupedMedia,
                                                !.numberOfImages = groupedImages],
                        !.additional.flat =
                            [EmptyObject EXCEPT !.numberOfMedia = flatMedia,
                                                !.numberOfImages = flatImages]] :
                     groupedMedia \in {Undefined, Num(2)}, groupedImages \in {Undefined, Num(3)},
                     flatMedia \in {Undefined, Num(4)}, flatImages \in {Undefined, Null, Num(5)}}
         [] k = "imageEdit" ->
              \* steps and guidance, for every model id
              {[PlainEdit EXCEPT
                  !.modelId = modelId,
                  !.additional.generationSettings =
                      [EmptyObject EXCEPT !.steps = steps, !.guidance = guidance]] :
               modelId \in EditModelIds, steps \in NumericValues, guidance \in NumericValues}
              \* another numeric field, under each network tier
              \cup UNION {{[PlainEdit EXCEPT
                               !.network = network,
                               !.additional[group] = GroupWith(name, v)] :
                            network \in NetworkValues \ {Undefined}, v \in NumericValues} :
                         <<group, name>> \in {<<"generationSettings", "numberOfMedia">>,
                                              <<"output", "width">>, <<"output", "height">>,
                                              <<"advanced", "timeout">>}}
         [] k = "videoGenerate" ->
              \* the frame count, for every model id
              {[PlainVideo EXCEPT
                  !.modelId = modelId,
                  !.additional.videoSettings = GroupWith("frames", frames)] :
               modelId \in VideoModelIds,
               frames \in {Undefined, Null, NaN} \cup {Num(n) : n \in 0..FramesMaxValue}}
              \* another numeric field, under each network tier
              \cup UNION {{[PlainVideo EXCEPT
                               !.network = network,
                               !.additional[group] = GroupWith(name, v)] :
                            network \in NetworkValues \ {Undefined}, v \in NumericValues} :
                         <<group, name>> \in {<<"videoSettings", "numberOfMedia">>,
                                              <<"videoSettings", "fps">>,
                                              <<"videoSettings", "steps">>,
                                              <<"videoSettings", "guidance">>,
                                              <<"output", "width">>, <<"output", "height">>,
                                              <<"advanced", "timeout">>}}
              \* the ControlNet switch, type and strength of the workflow controls
              \cup {[PlainVideo EXCEPT
                        !.additional.workflowControls =
                            [EmptyObject EXCEPT
                               !.enableVideoControlNet = enable,
                               !.videoControlNetType = type,
                               !.videoControlNetStrength = strength]] :
                     enable \in BooleanValues, type \in StringValues,
                     strength \in NumericValues}]

\* the generation items of a scenario, by the name cfg.inputs holds
ItemInputs(scenario, kind) ==
    CASE scenario \in {"plain", "results"} -> PlainInputs[kind]
      [] scenario = "download" -> DownloadInputs[kind]
      [] scenario = "assets" -> AssetInputs[kind]
      [] scenario = "resolve" -> ResolveInputs[kind]
      [] OTHER -> {}

(***************************************************************************)
(* Generation results: the job list, the downloaded artifacts              *)
(***************************************************************************)

\* variant: r.jobs || [] mapped, an empty list when there is no job list
JobsOrEmpty(jobs) ==
    IF jobs.t = "array"
    THEN Arr([k \in DOMAIN jobs.items |->
                 [id |-> jobs.items[k].id, status |-> jobs.items[k].status]])
    ELSE Arr(<<>>)

\* Array.isArray(r.jobs) ? r.jobs.map((job) => ({ id: job.id, status: job.status }))
\*   : undefined
JobsField(jobs) ==
    IF jobs.t = "array"
    THEN Arr([k \in DOMAIN jobs.items |->
                 [id |-> jobs.items[k].id, status |-> jobs.items[k].status]])
    ELSE Undefined

\* the record of a generation item: json.imageUrls / videoUrls, json.jobs, binary
GenerationRecord(f, kind, urls, binary) ==
    [SuccessRecord(f.i, kind, urls, binary) EXCEPT !.jobs = JobsField(f.cur.jobs)]

\* the jobs of a remote result, with a field the record does not carry
RemoteJobs ==
    {[id |-> "job1", status |-> "completed", workerName |-> "w"],
     [id |-> "job2", status |-> "failed", workerName |-> "w"]}
\* the job lists of a scenario, by the name cfg.inputs holds: missing, null,
\* an object, and the arrays of up to two jobs
ResultJobs(scenario) ==
    IF scenario = "results"
    THEN {Undefined, Null, PlainObject} \cup {Arr(js) : js \in SeqsUpTo(RemoteJobs, 2)}
    ELSE {Undefined}

\* the first bytes of a response body
PngSignature == <<137, 80, 78, 71, 13, 10, 26, 10>>
Gif87a == <<71, 73, 70, 56, 55, 97>>
Gif89a == <<71, 73, 70, 56, 57, 97>>
\* bodies: empty, the three signatures, JPEG in three bytes, the first half
\* of the PNG signature, GIF with another version, the ftyp box of an mp4
Bodies ==
    {<<>>, PngSignature, <<255, 216, 255, 224>>, Gif87a, Gif89a,
     <<255, 216, 255>>, <<137, 80, 78, 71>>, <<71, 73, 70, 56, 56, 97>>,
     <<0, 0, 0, 24, 102, 116, 121, 112>>}

\* sniffMimeType(buffer)
sniffMimeType(buffer) ==
    IF Len(buffer) < 4 THEN Undefined
    ELSE IF buffer[1] = 255 /\ buffer[2] = 216 /\ buffer[3] = 255
    THEN Str(<<"image/jpeg">>)
    ELSE IF Len(buffer) >= 8 /\ SubSeq(buffer, 1, 8) = PngSignature
    THEN Str(<<"image/png">>)
    ELSE IF Len(buffer) >= 6 /\ SubSeq(buffer, 1, 6) \in {Gif87a, Gif89a}
    THEN Str(<<"image/gif">>)
    ELSE Undefined

\* variant: the video branch sniffs the body as the image branches do
MimeTypeSniffed(kind, headerCt, bodyBuffer, outputFormat) ==
    FirstTruthy(<<headerCt, sniffMimeType(bodyBuffer),
                  IF kind = "videoGenerate" THEN Str(<<"video/">> \o outputFormat.s)
                  ELSE Str(<<"application/octet-stream">>)>>)

\* headerCt || sniffMimeType(bodyBuffer) || 'application/octet-stream' for
\* an image, headerCt || `video/${outputFormat}` for a video
MimeType(kind, headerCt, bodyBuffer, outputFormat) ==
    IF kind = "videoGenerate"
    THEN Or(headerCt, Str(<<"video/">> \o outputFormat.s))
    ELSE Or(headerCt, Or(sniffMimeType(bodyBuffer), Str(<<"application/octet-stream">>)))

\* a response that is ok: the content-type header and the body
Response(headerCt, bodyBuffer) == [headerCt |-> headerCt, body |-> bodyBuffer]
NoResponse == Response(Undefined, <<>>)
\* the responses of a scenario, by the name cfg.inputs holds
Responses(scenario) ==
    IF scenario = "results"
    THEN {Response(ct, body) :
            ct \in {Undefined, Str(<<>>), Str(<<"image/webp">>)}, body \in Bodies}
    ELSE {Response(Str(<<"image/png">>), PngSignature)}

(***************************************************************************)
(* Option lookups: the option list built from the model list               *)
(***************************************************************************)
\* the characters of a string value, '' for the value of (v || '')
StringOf(v) == IF Falsy(v) THEN <<>> ELSE v.s

\* model.workerCount ?? model.workers ?? 0
Workers(model) == Coalesce(<<model.workerCount, model.workers, Num(0)>>)

\* model.health === 'healthy' || model.status === 'healthy' ||
\*   (typeof model.healthy === 'boolean' ? model.healthy : workers > 0)
Healthy(model) ==
    \/ model.health = Str(<<"healthy">>)
    \/ model.status = Str(<<"healthy">>)
    \/ IF model.healthy.t = "boolean" THEN model.healthy.b ELSE Workers(model).n > 0

\* healthy && workers >= 5
Recommended(model) == Healthy(model) /\ Workers(model).n >= 5

\* workers ? ` <bullet> ${workers} workers` : '', the bullet written as *
Badge(model) ==
    IF Falsy(Workers(model)) THEN <<>>
    ELSE <<" * ", IndexString(Workers(model).n), " workers">>

\* the option of getModelOptions and getVideoModelOptions for a model
ModelOption(model) ==
    [name |-> StringOf(Or(model.name, model.id)) \o Badge(model)
              \o (IF Recommended(model) THEN <<" (recommended)">> ELSE <<>>),
     value |-> model.id,
     description |-> Or(model.description, Undefined)]

\* the option of getImageEditModelOptions for a model, the star written as *
ImageEditOption(model) ==
    LET isLightning == includes(toLowerCase(StringOf(model.id)), <<"l", "i", "g", "h", "t", "n", "i", "n", "g">>)
    IN  [name |-> StringOf(Or(model.name, model.id)) \o Badge(model)
                  \o <<IF isLightning THEN " (4 steps recommended)"
                       ELSE " (20 steps recommended)">>
                  \o (IF Recommended(model) THEN <<" *">> ELSE <<>>),
         value |-> model.id,
         description |-> Or(model.description,
                            Str(<<"Qwen Image Edit model">>
                                \o (IF isLightning THEN <<" - Fast lightning variant">>
                                    ELSE <<>>)))]

\* the filter of getVideoModelOptions
IsVideoModel(model) ==
    LET id == toLowerCase(StringOf(model.id))
        name == toLowerCase(StringOf(Or(model.name, model.id)))
        description == toLowerCase(StringOf(model.description))
        haystack == id \o <<" ">> \o name \o <<" ">> \o description
    IN  \/ startsWith(id, <<"w", "a", "n", "_">>)
        \/ startsWith(id, <<"l", "t", "x", "2", "-">>)
        \/ includes(haystack, <<"v", "i", "d", "e", "o">>)
        \/ includes(haystack, <<"v", "i", "d">>)
        \/ includes(haystack, <<"a", "n", "i", "m", "a", "t", "i", "o", "n">>)
        \/ includes(haystack, <<"m", "o", "t", "i", "o", "n">>)
        \/ includes(haystack, <<"a", "n", "i", "m", "a", "t", "e">>)

\* the filter of getImageEditModelOptions
IsImageEditModel(model) ==
    LET modelId == toLowerCase(StringOf(model.id))
        name == toLowerCase(StringOf(Or(model.name, model.id)))
    IN  \/ includes(modelId, <<"q", "w", "e", "n">>) /\ includes(modelId, <<"i", "m", "a", "g", "e", "_", "e", "d", "i", "t">>)
        \/ includes(name, <<"q", "w", "e", "n">>) /\ includes(name, <<"i", "m", "a", "g", "e", " ", "e", "d", "i", "t">>)

\* the placeholder entries pushed for an empty family
VideoPlaceholder ==
    [name |-> <<"No video models available - check back later">>,
     value |-> Str(<<>>),
     description |-> Str(<<"Video models are being added to the platform">>)]
ImageEditPlaceholder ==
    [name |-> <<"No Qwen Image Edit models available - check back later">>,
     value |-> Str(<<>>),
     description |-> Str(<<"Qwen Image Edit models are being added to the platform">>)]

\* variant: the placeholder is pushed whatever the list holds
PlaceholderAlways(options, placeholder) == Append(options, placeholder)

\* if (options.length === 0) { options.push(placeholder) }
PlaceholderIfEmpty(options, placeholder) ==
    IF Len(options) = 0 THEN Append(options, placeholder) ELSE options

\* the option list a lookup builds from the model list it received
BuildOptions(kind, models) ==
    CASE kind \in {"getModelOptions", "getModelOptionsNodeTs"} ->
           [k \in DOMAIN models |-> ModelOption(models[k])]
      [] kind = "getVideoModelOptions" ->
           LET videoModels == SelectSeq(models, IsVideoModel)
           IN  PlaceholderIfEmpty([k \in DOMAIN videoModels |-> ModelOption(videoModels[k])],
                                  VideoPlaceholder)
      [] kind = "getImageEditModelOptions" ->
           LET imageEditModels == SelectSeq(models, IsImageEditModel)
           IN  PlaceholderIfEmpty(
                   [k \in DOMAIN imageEditModels |-> ImageEditOption(imageEditModels[k])],
                   ImageEditPlaceholder)

\* a model entry with an id and nothing else
PlainModel(id) ==
    [id |-> Str(id), name |-> Undefined, description |-> Undefined,
     workerCount |-> Undefined, workers |-> Undefined,
     health |-> Undefined, status |-> Undefined, healthy |-> Undefined]

\* model entries that differ in their health fields and worker counts, with
\* an id outside the families and an id of the edit family
HealthModels ==
    {[PlainModel(id) EXCEPT !.health = health, !.status = status, !.healthy = healthy,
                            !.workerCount = workerCount, !.workers = workers] :
     id \in {<<"f", "l", "u", "x">>, <<"q", "w", "e", "n", "_", "i", "m", "a", "g", "e", "_", "e", "d", "i", "t">>},
     health \in {Undefined, Str(<<"healthy">>), Str(<<"degraded">>)},
     status \in {Undefined, Str(<<"healthy">>), Str(<<"degraded">>)},
     healthy \in {Undefined, Bool(TRUE), Bool(FALSE)},
     workerCount \in {Undefined, Num(0), Num(5)},
     workers \in {Undefined, Num(7)}}

\* model entries inside and outside the video and the edit family: by the
\* prefix of the id in either letter case, by a keyword of the description or
\* of the name, by the id or the name of an edit model, and by one half only
\* of each edit pattern
FamilyModels ==
    {PlainModel(<<"w", "a", "n", "_", "a">>),
     PlainModel(<<"L", "T", "X", "2", "-", "a">>),
     PlainModel(<<"f", "l", "u", "x">>),
     [PlainModel(<<"x">>) EXCEPT !.description = Str(<<"m", "o", "t", "i", "o", "n">>)],
     [PlainModel(<<"y">>) EXCEPT !.name = Str(<<"V", "i", "d">>)],
     PlainModel(<<"q", "w", "e", "n", "_", "i", "m", "a", "g", "e", "_", "e", "d", "i", "t">>),
     PlainModel(<<"q", "w", "e", "n", "_", "i", "m", "a", "g", "e", "_", "e", "d", "i", "t", "_", "l", "i", "g", "h", "t", "n", "i", "n", "g">>),
     [PlainModel(<<"z">>) EXCEPT !.name = Str(<<"Q", "w", "e", "n", " ", "I", "m", "a", "g", "e", " ", "E", "d", "i", "t">>)],
     [PlainModel(<<"q", "w", "e", "n">>) EXCEPT !.name = Str(<<"i", "m", "a", "g", "e", " ", "e", "d", "i", "t">>)]}

\* the model lists of a scenario, by the name cfg.inputs holds
ModelLists(scenario) ==
    IF scenario = "options"
    THEN {<<m>> : m \in HealthModels} \cup SeqsUpTo(FamilyModels, MaxOptionModels)
    ELSE {<<>>}

(***************************************************************************)
(* Host calls: actions                                                     *)
(***************************************************************************)
\* the host invokes execute(): items = this.getInputData(), returnData = []
ExecuteBegin(c) ==
    /\ c \in cfg.slots
    /\ "execute" \in cfg.kinds
    /\ calls[c].kind = "none"
    /\ \E items \in cfg.itemSeqs, cof \in cfg.cofs, cred \in cfg.creds :
          calls' = [calls EXCEPT ![c] = [IdleCall EXCEPT !.kind = "execute", !.pc = "creds",
                                            !.credAppId = cred, !.items = items, !.cof = cof]]
    /\ UNCHANGED <<issued, cfg, client, sd>>

\* the host invokes one of the loadOptions methods
LoadOptionsBegin(c) ==
    /\ c \in cfg.slots
    /\ calls[c].kind = "none"
    /\ \E kind \in LoadOptionsKinds \cap cfg.kinds, cred \in cfg.creds :
          calls' = [calls EXCEPT ![c] = [IdleCall EXCEPT !.kind = kind, !.pc = "creds",
                                            !.credAppId = cred]]
    /\ UNCHANGED <<issued, cfg, client, sd>>

\* await this.getCredentials('sogniApi') settles; on success the identity is
\* allocated and the client constructed.  outcome "rejects": getCredentials
\* rejects; "throws": the SogniClientWrapper constructor throws.
Construct(c) ==
    /\ calls[c].pc = "creds"
    /\ \E outcome \in {"ok", "rejects", "throws"} :
        LET f == calls[c]
            generates == IF f.kind = "execute" THEN ExecuteGenerates(f.credAppId) ELSE TRUE
        IN  IF outcome = "rejects"
            THEN /\ calls' = [calls EXCEPT ![c].pc = "done", ![c].result = "threw",
                                            ![c].thrown = Err("credentials")]
                 /\ UNCHANGED issued
            ELSE \E uuid \in (IF generates THEN randomUUID(cfg.uuids, issued) ELSE {"unused"}) :
                    LET appId == IF f.kind = "execute"
                                 THEN ExecuteAppId(f.credAppId, uuid)
                                 ELSE LoadOptionsAppId(f.credAppId, uuid)
                    IN  /\ issued' = IF generates THEN issued \cup {uuid} ELSE issued
                        /\ IF outcome = "throws"
                           THEN calls' = [calls EXCEPT ![c].pc = "done", ![c].result = "threw",
                                                        ![c].appId = appId,
                                                        ![c].thrown = Err("constructor")]
                           ELSE calls' = [calls EXCEPT ![c].appId = appId,
                                                        ![c].hasClient = TRUE,
                                                        ![c].clientRef =
                                                            NewClient(c, f.constructed + 1),
                                                        ![c].constructed = @ + 1,
                                                        ![c].pc = IF f.kind = "execute"
                                                                  THEN "loop" ELSE "search"]
    /\ UNCHANGED <<cfg, client, sd>>

\* a submit on the client with the request it carries
SubmitOp(cl, name, i, request) ==
    [op |-> name, item |-> i, request |-> request, client |-> cl]

\* one pass of the item loop up to its first await on the client: the
\* selector and the parameters are read, the named binaries are resolved and
\* validated, and the request is handed to the client.
ItemBegin(c) ==
    /\ calls[c].kind = "execute"
    /\ calls[c].pc = "loop"
    /\ calls[c].i < Len(calls[c].items)
    /\ LET f == calls[c]
           kind == f.items[f.i + 1]
           plain == [f EXCEPT !.inputs = Append(@, NoInput)]
       IN  \/ \E e \in ParameterErrors :
                 calls' = [calls EXCEPT ![c] = Throw(plain, e)]
           \/ /\ kind = "other"
              /\ calls' = [calls EXCEPT ![c] = FinishItem(plain, <<>>)]
           \/ /\ kind \in QueryKinds
              /\ calls' = [calls EXCEPT ![c] =
                    [plain EXCEPT !.ops = Append(@, Op(f.clientRef, ClientOp(kind), f.i)), !.pc = "query"]]
           \/ /\ kind \in GenerateKinds
              /\ \E input \in ItemInputs(cfg.inputs, kind) :
                    LET built == BuildRequest(kind, input, f.i)
                        read == [f EXCEPT !.inputs = Append(@, input)]
                    IN  calls' = [calls EXCEPT ![c] =
                           IF built.error # NoError THEN Throw(read, built.error)
                           ELSE [read EXCEPT
                                   !.ops = Append(@, SubmitOp(f.clientRef, ClientOp(kind), f.i, built.request)),
                                   !.cur.download = built.download,
                                   !.pc = "submit"]]
    /\ UNCHANGED <<issued, cfg, client, sd>>

\* await client.create...Project(config) settles
SubmitSettles(c) ==
    /\ calls[c].pc = "submit"
    /\ LET f == calls[c]
           kind == f.items[f.i + 1]
       IN  \/ \E e \in SubmitErrors :
                 calls' = [calls EXCEPT ![c] = Throw(f, e)]
           \/ \E urls \in cfg.urls, jobs \in ResultJobs(cfg.inputs) :
                 LET g == [f EXCEPT !.cur.jobs = jobs,
                                    !.results = Append(@, [item |-> f.i, jobs |-> jobs])] IN
                 calls' = [calls EXCEPT ![c] =
                    \* if (downloadImages !== false && r.imageUrls && r.imageUrls.length > 0)
                    IF f.cur.download # Bool(FALSE) /\ urls > 0
                    THEN [g EXCEPT !.cur.urls = urls, !.cur.u = 0, !.cur.binary = {},
                                   !.pc = "download"]
                    ELSE FinishItem(g, <<GenerationRecord(g, kind, urls, {})>>)]
    /\ UNCHANGED <<issued, cfg, client, sd>>

\* what one pass of the download loop may meet: success, a response that is
\* not ok, a rejected fetch or arrayBuffer, a rejected prepareBinaryData
DownloadOutcomes == {"ok", "notOk", "fetchError", "prepareError"}

\* variant: the suffix counts from one: `image_${imgIndex + 1}`
BinaryPropertyNameFromOne(kind, index) ==
    LET base == IF kind = "videoGenerate" THEN "video" ELSE "image"
    IN  IF index = 0 THEN <<base>> ELSE <<base, "_", IndexString(index + 1)>>

\* imgIndex === 0 ? 'image' : `image_${imgIndex}` (video: 'video', `video_${vidIndex}`)
BinaryPropertyName(kind, index) ==
    LET base == IF kind = "videoGenerate" THEN "video" ELSE "image"
    IN  IF index = 0 THEN <<base>> ELSE <<base, "_", IndexString(index)>>

\* outputData.binary[binaryPropertyName] = artifact downloaded from URL index
AssignBinary(binary, property, index, mimeType) ==
    {b \in binary : b.property # property}
    \cup {[property |-> property, url |-> index, mimeType |-> mimeType]}

\* variant: a failed download is rethrown to the catch of the item loop
DownloadCatchRethrows(f, outcome) ==
    IF outcome = "ok" THEN f
    ELSE Throw(f, Err("Failed to download"))

\* catch (downloadError) { console.error(...) } of the download loop: the
\* frame after a pass with this outcome was caught
DownloadCatch(f, outcome) == f

\* one pass of the download loop: fetch, arrayBuffer and prepareBinaryData
\* of URL u; a failure is caught and logged inside the loop
Download(c) ==
    /\ calls[c].pc = "download"
    /\ LET f == calls[c]
           kind == f.items[f.i + 1]
           outputFormat == f.ops[Len(f.ops)].request.outputFormat
       IN  \E outcome \in cfg.outcomes :
           \E resp \in (IF outcome = "ok" THEN Responses(cfg.inputs) ELSE {NoResponse}) :
              LET index == f.cur.u
                  binary == IF outcome = "ok"
                            THEN AssignBinary(f.cur.binary,
                                              BinaryPropertyName(kind, index), index,
                                              MimeType(kind, resp.headerCt, resp.body,
                                                       outputFormat))
                            ELSE f.cur.binary
                  logged == [f EXCEPT !.log = Append(@, [item |-> f.i, url |-> index,
                                                          outcome |-> outcome,
                                                          response |-> resp])]
                  g == DownloadCatch(logged, outcome)
              IN  calls' = [calls EXCEPT ![c] =
                     IF g.pc # "download" THEN g
                     ELSE IF NextIndex(index) < f.cur.urls
                     THEN [g EXCEPT !.cur.u = NextIndex(index), !.cur.binary = binary]
                     ELSE FinishItem(g, <<GenerationRecord(g, kind, f.cur.urls, binary)>>)]
    /\ UNCHANGED <<issued, cfg, client, sd>>

\* await client.estimateVideoCost / getAvailableModels / getModel / getBalance
\* settles; getAll pushes one record per model
QuerySettles(c) ==
    /\ calls[c].pc = "query"
    /\ LET f == calls[c]
           kind == f.items[f.i + 1]
       IN  \/ \E e \in QueryErrors :
                 calls' = [calls EXCEPT ![c] = Throw(f, e)]
           \/ \E n \in (IF kind = "modelGetAll" THEN 0..MaxModels ELSE {1}) :
                 calls' = [calls EXCEPT ![c] =
                    FinishItem(f, [k \in 1..n |-> SuccessRecord(f.i, kind, 0, {})])]
    /\ UNCHANGED <<issued, cfg, client, sd>>

\* the loop condition fails: return [returnData]
LoopExit(c) ==
    /\ calls[c].kind = "execute"
    /\ calls[c].pc = "loop"
    /\ calls[c].i >= Len(calls[c].items)
    /\ calls' = [calls EXCEPT ![c].pc = "finally"]
    /\ UNCHANGED <<issued, cfg, client, sd>>

\* loadOptions try block up to the await: getCurrentNodeParameter, then
\* client.getAvailableModels is called
LoadOptionsFetch(c) ==
    /\ calls[c].pc = "search"
    /\ \E e \in {NoError} \cup ParameterErrors :
          calls' = [calls EXCEPT ![c] =
             IF e = NoError
             THEN [@ EXCEPT !.ops = Append(@, Op(calls[c].clientRef, "getAvailableModels", 0)), !.pc = "models"]
             ELSE [@ EXCEPT !.thrown = e, !.pc = "finally"]]
    /\ UNCHANGED <<issued, cfg, client, sd>>

\* variant: the disconnect follows the try block instead of sitting in a
\* finally block, so a rejected model list leaves the method directly
LoadOptionsSettlesThenLeave(c) ==
    /\ calls[c].pc = "models"
    /\ \E e \in {NoError} \cup QueryErrors :
          calls' = [calls EXCEPT ![c] =
             IF e = NoError
             THEN [@ EXCEPT !.pc = "finally"]
             ELSE [@ EXCEPT !.thrown = e, !.pc = "done", !.result = "threw"]]
    /\ UNCHANGED <<issued, cfg, client, sd>>

\* await client.getAvailableModels settles; the options are built
LoadOptionsSettles(c) ==
    /\ calls[c].pc = "models"
    /\ \/ \E e \in QueryErrors :
             calls' = [calls EXCEPT ![c] = [@ EXCEPT !.thrown = e, !.pc = "finally"]]
       \/ \E models \in ModelLists(cfg.inputs) :
             calls' = [calls EXCEPT ![c] =
                [@ EXCEPT !.models = models,
                          !.options = BuildOptions(calls[c].kind, models),
                          !.pc = "finally"]]
    /\ UNCHANGED <<issued, cfg, client, sd>>

\* the timeoutMs the finally block passes to safeDisconnect
DisconnectTimeoutMs(kind) == IF kind = "execute" THEN 5000 ELSE 2000

\* finally { await safeDisconnect(client, {label, appId, timeoutMs}) }: the call starts
Finally(c) ==
    /\ calls[c].pc = "finally"
    /\ calls[c].kind \in {"execute"} \cup LoadOptionsKinds
    /\ calls' = [calls EXCEPT ![c].ops = Append(@, Op(calls[c].clientRef, "safeDisconnect", calls[c].i)),
                               ![c].discTimeoutMs = DisconnectTimeoutMs(calls[c].kind),
                               ![c].pc = "disconnecting"]
    /\ UNCHANGED <<issued, cfg, client, sd>>

\* safeDisconnect has returned; the pending return or throw completes
Finished(c) ==
    /\ calls[c].pc = "disconnecting"
    /\ calls' = [calls EXCEPT ![c].pc = "done",
                               ![c].result = IF calls[c].thrown = NoError
                                             THEN "returned" ELSE "threw"]
    /\ UNCHANGED <<issued, cfg, client, sd>>

(***************************************************************************)
(* getModelOptions as written in nodes/Sogni/Sogni.node.ts                 *)
(***************************************************************************)
\* JavaScript truthiness of credentials.appId
Truthy(v) == v.t = "string" /\ v.s # <<>>

\* (credentials.appId as string) || `n8n-model-picker-${Date.now()}-${Math.random()...}`
NodeTsLoadOptionsAppId(credAppId, rnd) ==
    IF Truthy(credAppId) THEN credAppId
    ELSE Str(<<"n8n-model-picker", "-", "1762300800000", "-", rnd>>)

RandomSuffixes == {"k3j9x0q1z", "p0o9i8u7y"}

\* the host invokes getModelOptions
NodeTsLoadOptionsBegin(c) ==
    /\ c \in cfg.slots
    /\ "getModelOptionsNodeTs" \in cfg.kinds
    /\ calls[c].kind = "none"
    /\ \E cred \in cfg.creds :
          calls' = [calls EXCEPT ![c] = [IdleCall EXCEPT !.kind = "getModelOptionsNodeTs",
                                            !.pc = "credsNodeTs", !.credAppId = cred]]
    /\ UNCHANGED <<issued, cfg, client, sd>>

\* await this.getCredentials settles; the appId is chosen and the client constructed
NodeTsConstruct(c) ==
    /\ calls[c].pc = "credsNodeTs"
    /\ \E outcome \in {"ok", "rejects", "throws"}, rnd \in RandomSuffixes :
          LET appId == NodeTsLoadOptionsAppId(calls[c].credAppId, rnd)
          IN  calls' = [calls EXCEPT ![c] =
                 IF outcome = "rejects"
                 THEN [@ EXCEPT !.pc = "done", !.result = "threw", !.thrown = Err("credentials")]
                 ELSE IF outcome = "throws"
                 THEN [@ EXCEPT !.pc = "done", !.result = "threw", !.appId = appId,
                                !.thrown = Err("constructor")]
                 ELSE [@ EXCEPT !.appId = appId, !.hasClient = TRUE,
                                !.clientRef = NewClient(c, calls[c].constructed + 1),
                                !.constructed = @ + 1, !.pc = "search"]]
    /\ UNCHANGED <<issued, cfg, client, sd>>

\* finally { try { await client.disconnect() } catch {} }: disconnect is called
NodeTsFinally(c) ==
    /\ calls[c].pc = "finally"
    /\ calls[c].kind = "getModelOptionsNodeTs"
    /\ calls' = [calls EXCEPT ![c].ops = Append(@, Op(calls[c].clientRef, "disconnect", calls[c].i)),
                               ![c].pc = "disconnectingNodeTs"]
    /\ UNCHANGED <<issued, cfg, client, sd>>

\* client.disconnect() settles; a rejection is swallowed
NodeTsFinished(c) ==
    /\ calls[c].pc = "disconnectingNodeTs"
    /\ calls' = [calls EXCEPT ![c].pc = "done",
                               ![c].result = IF calls[c].thrown = NoError
                                             THEN "returned" ELSE "threw"]
    /\ UNCHANGED <<issued, cfg, client, sd>>

(***************************************************************************)
(* safeDisconnect                                                          *)
(***************************************************************************)
\* JavaScript values of context.timeoutMs
NoTimeout == [t |-> "undefined", n |-> 0]
NotANumber == [t |-> "string", n |-> 2000]  \* e.g. the string "2000"

ContextTimeouts ==
    {NoTimeout, NaN, NotANumber, Num(0), Num(0 - 1000),
     Num(DisconnectTimeoutMs("execute")), Num(DisconnectTimeoutMs("getModelOptions"))}

\* v > 0 for a value whose typeof is 'number'; false for NaN
GreaterThanZero(v) == v.t = "number" /\ v.n > 0

\* typeof context.timeoutMs === 'number' && context.timeoutMs > 0 ? context.timeoutMs : 5000
EffectiveTimeoutMs(ctx) ==
    IF TypeofNumber(ctx) /\ GreaterThanZero(ctx) THEN ctx.n ELSE 5000

\* the field names probed for the transport handle, in the order of the ?? chain
ProbeFields == <<"socket", "ws", "websocket", "_socket", "_ws", "_websocket",
                 "client.socket", "client.ws", "client.websocket">>

\* value of the ?? chain: the first field that is neither null nor undefined
RECURSIVE ProbeFrom(_, _)
ProbeFrom(fields, k) ==
    IF k > Len(ProbeFields) THEN "nullish"
    ELSE IF fields[ProbeFields[k]] # "nullish" THEN fields[ProbeFields[k]]
    ELSE ProbeFrom(fields, k + 1)

Probe(fields) == ProbeFrom(fields, 1)

NoFields == [n \in {ProbeFields[k] : k \in 1..Len(ProbeFields)} |-> "nullish"]

\* the shapes of client considered: no transport field, a handle in the first
\* or in the last probed field, or a falsy non-null value in front of a handle
ClientFields ==
    {NoFields}
    \cup {[NoFields EXCEPT ![ProbeFields[k]] = "handle"] : k \in {1, Len(ProbeFields)}}
    \cup {[NoFields EXCEPT !["socket"] = "falsy", !["ws"] = "handle"]}

\* readyState of the handle; NoReadyState when the handle exposes none
NoReadyState == 0 - 1
ReadyStates == {NoReadyState, 1, 2, 3}

Clients ==
    [isNull : {FALSE}, hasDisconnect : BOOLEAN, fields : ClientFields,
     readyState : ReadyStates, hasClose : BOOLEAN, hasTerminate : BOOLEAN,
     hasRemoveAllListeners : BOOLEAN, listeners : {TRUE}]

NullClient ==
    [isNull |-> TRUE, hasDisconnect |-> FALSE, fields |-> NoFields,
     readyState |-> NoReadyState, hasClose |-> FALSE, hasTerminate |-> FALSE,
     hasRemoveAllListeners |-> FALSE, listeners |-> FALSE]

\* what the transport does when probed and when its methods are called:
\* TRUE = the access or call throws
HardBehaviours == [probe : BOOLEAN, close : BOOLEAN, terminate : BOOLEAN, remove : BOOLEAN]

\* variant: the catch of the graceful phase rethrows
GracefulCatchRethrows(threw) == threw

\* catch (err) { debugLogAppId(...) } of the graceful phase: does the error escape?
GracefulCatch(threw) == FALSE

\* variant: the catch around a transport method lets the error go on
CatchIgnoreRethrows(threw) == threw

\* catch { /* ignore */ } around ws.close(), ws.terminate(), ws.removeAllListeners()
CatchIgnore(threw) == FALSE

\* catch (err) { debugLogAppId(...) } around the whole hard-close phase
HardCloseCatch(threw) == FALSE

\* readyState === 3
IsClosed(readyState) == readyState = 3

\* Phase 2 of safeDisconnect: probe, close, terminate, removeAllListeners.
\* Result: the client afterwards, the transport methods invoked (in order),
\* whether a handle was found, and whether an exception escapes.
HardClose(cl, hb) ==
    IF hb.probe
    THEN [client |-> cl, wsCalls |-> <<>>, wsThrew |-> {"probe"}, found |-> FALSE,
          escaped |-> HardCloseCatch(TRUE)]
    ELSE IF Probe(cl.fields) # "handle"
    THEN [client |-> cl, wsCalls |-> <<>>, wsThrew |-> {}, found |-> FALSE, escaped |-> FALSE]
    ELSE
      LET isClosed == IsClosed(cl.readyState)
          s0 == [rs |-> cl.readyState, wsCalls |-> <<>>, wsThrew |-> {},
                 listeners |-> cl.listeners, esc |-> FALSE]
          \* if (!isClosed) { try { ws.close() } catch {} ...
          s1 == IF ~isClosed /\ cl.hasClose
                THEN [s0 EXCEPT !.wsCalls = Append(@, "close"),
                                !.rs = IF hb.close \/ @ = NoReadyState THEN @ ELSE 2,
                                !.wsThrew = IF hb.close THEN @ \cup {"close"} ELSE @,
                                !.esc = CatchIgnore(hb.close)]
                ELSE s0
          \* ... try { ws.terminate() } catch {} }
          s2 == IF ~s1.esc /\ ~isClosed /\ cl.hasTerminate
                THEN [s1 EXCEPT !.wsCalls = Append(@, "terminate"),
                                !.rs = IF hb.terminate \/ @ = NoReadyState THEN @ ELSE 3,
                                !.wsThrew = IF hb.terminate THEN @ \cup {"terminate"} ELSE @,
                                !.esc = CatchIgnore(hb.terminate)]
                ELSE s1
          \* try { ws.removeAllListeners() } catch {}
          s3 == IF ~s2.esc /\ cl.hasRemoveAllListeners
                THEN [s2 EXCEPT !.wsCalls = Append(@, "removeAllListeners"),
                                !.listeners = IF hb.remove THEN @ ELSE FALSE,
                                !.wsThrew = IF hb.remove THEN @ \cup {"removeAllListeners"} ELSE @,
                                !.esc = CatchIgnore(hb.remove)]
                ELSE s2
      IN  [client |-> [cl EXCEPT !.readyState = s3.rs, !.listeners = s3.listeners],
           wsCalls |-> s3.wsCalls, wsThrew |-> s3.wsThrew, found |-> TRUE,
           escaped |-> IF s3.esc THEN HardCloseCatch(TRUE) ELSE FALSE]

IdleFrame ==
    [pc |-> "idle", ctx |-> NoTimeout, timeoutMs |-> 0, elapsed |-> 0, promise |-> "none",
     graceful |-> "none", hardClose |-> FALSE, found |-> FALSE, wsCalls |-> <<>>,
     wsThrew |-> {},
     before |-> NoReadyState, invoked |-> 0, returned |-> 0, threw |-> 0]

\* the frame after phase 2 ran on the current client and safeDisconnect ended
EndCall(f, h) ==
    [f EXCEPT !.pc = "idle", !.ctx = NoTimeout, !.timeoutMs = 0, !.elapsed = 0,
              !.promise = "none",
              !.hardClose = TRUE, !.found = h.found, !.wsCalls = h.wsCalls,
              !.wsThrew = h.wsThrew,
              !.returned = IF h.escaped THEN @ ELSE @ + 1,
              !.threw = IF h.escaped THEN @ + 1 ELSE @]

\* the frame after an exception left safeDisconnect from the graceful phase
ThrowOut(f) ==
    [f EXCEPT !.pc = "idle", !.ctx = NoTimeout, !.timeoutMs = 0, !.elapsed = 0,
              !.promise = "none", !.threw = @ + 1]

\* safeDisconnect(client, context) is called: the synchronous part up to the
\* await of the race, or to the end when there is nothing to await
SafeDisconnect ==
    /\ sd.pc = "idle"
    /\ sd.invoked < MaxDisconnects
    /\ \E ctx \in ContextTimeouts, promise \in {"throws", "resolves", "rejects", "pending"},
          hb \in HardBehaviours :
        LET f == [sd EXCEPT !.invoked = @ + 1, !.ctx = ctx,
                            !.timeoutMs = EffectiveTimeoutMs(ctx), !.elapsed = 0,
                            !.promise = "none", !.graceful = "none", !.hardClose = FALSE,
                            !.found = FALSE, !.wsCalls = <<>>, !.wsThrew = {},
                            !.before = client.readyState]
        IN  IF client.isNull
            \* if (!client) return
            THEN /\ sd' = [f EXCEPT !.ctx = NoTimeout, !.timeoutMs = 0, !.returned = @ + 1]
                 /\ UNCHANGED client
            ELSE IF client.hasDisconnect /\ promise # "throws"
            \* await promiseWithTimeout(Promise.resolve(client.disconnect()), timeoutMs, ...)
            THEN /\ sd' = [f EXCEPT !.pc = "racing", !.promise = promise]
                 /\ UNCHANGED client
            ELSE IF client.hasDisconnect /\ GracefulCatch(TRUE)
            \* client.disconnect() threw and the error escaped
            THEN /\ sd' = ThrowOut([f EXCEPT !.graceful = "threw"])
                 /\ UNCHANGED client
            ELSE LET h == HardClose(client, hb)
                 IN  /\ sd' = EndCall([f EXCEPT !.graceful = IF client.hasDisconnect
                                                              THEN "threw" ELSE "absent"], h)
                     /\ client' = h.client
    /\ UNCHANGED <<calls, issued, cfg>>

\* time passes while the race is pending: to the middle of the wait, then to
\* the instant the timer is due; the timer fires before time passes it
Tick ==
    /\ sd.pc = "racing"
    /\ sd.elapsed < sd.timeoutMs
    /\ sd' = [sd EXCEPT !.elapsed = IF @ < sd.timeoutMs \div 2
                                    THEN sd.timeoutMs \div 2 ELSE sd.timeoutMs]
    /\ UNCHANGED <<calls, issued, cfg, client>>

\* variant: the disconnect promise is awaited without a timer
TimerNeverDue(f) == FALSE

\* promiseWithTimeout: the timer armed by setTimeout(..., timeoutMs) is due
TimerDue(f) == f.elapsed >= f.timeoutMs

\* the disconnect promise settles before the timer fires
GracefulSettles ==
    /\ sd.pc = "racing"
    /\ sd.promise \in {"resolves", "rejects"}
    /\ \E hb \in HardBehaviours :
        IF sd.promise = "rejects" /\ GracefulCatch(TRUE)
        THEN /\ sd' = ThrowOut([sd EXCEPT !.graceful = "rejected"])
             /\ UNCHANGED client
        ELSE LET h == HardClose(client, hb)
             IN  /\ sd' = EndCall([sd EXCEPT !.graceful = IF sd.promise = "resolves"
                                                           THEN "resolved" ELSE "rejected"], h)
                 /\ client' = h.client
    /\ UNCHANGED <<calls, issued, cfg>>

\* the timer fires first: the race rejects with "timed out", the catch logs it
TimerFires ==
    /\ sd.pc = "racing"
    /\ TimerDue(sd)
    /\ \E hb \in HardBehaviours :
        IF GracefulCatch(TRUE)
        THEN /\ sd' = ThrowOut([sd EXCEPT !.graceful = "timedOut"])
             /\ UNCHANGED client
        ELSE LET h == HardClose(client, hb)
             IN  /\ sd' = EndCall([sd EXCEPT !.graceful = "timedOut"], h)
                 /\ client' = h.client
    /\ UNCHANGED <<calls, issued, cfg>>

\* the transport finishes closing on its own between two calls
TransportCloses ==
    /\ sd.pc = "idle"
    /\ ~client.isNull
    /\ client.readyState \in {1, 2}
    /\ client' = [client EXCEPT !.readyState = 3]
    /\ UNCHANGED <<calls, issued, cfg, sd>>

(***************************************************************************)
(* Specifications                                                          *)
(***************************************************************************)
NoCalls == [c \in CallIds |-> IdleCall]
CallKinds == {"execute"} \cup LoadOptionsKinds
NoConfig == [slots |-> {}, kinds |-> {}, itemSeqs |-> {<<>>}, cofs |-> {FALSE}, creds |-> {Undefined},
             uuids |-> {}, inputs |-> "none", urls |-> {0}, outcomes |-> {"ok"}]

\* the items of the scenarios that are about identities: none, or one balance query
PlainItemSeqs == {<<>>, <<"accountGetBalance">>}

\* Spec: one host call, every item kind, up to MaxItems items, credentials
\* without appId override; one call draws at most one UUID
Init ==
    /\ calls = NoCalls
    /\ issued = {}
    /\ cfg = [slots |-> {1}, kinds |-> CallKinds, itemSeqs |-> SeqsUpTo(ItemKinds, MaxItems),
              cofs |-> BOOLEAN, creds |-> {Undefined}, uuids |-> {UuidNames[1]},
              inputs |-> "plain", urls |-> 0..MaxUrls, outcomes |-> {"ok", "notOk"}]
    /\ client = NullClient
    /\ sd = IdleFrame

Next ==
    \E c \in CallIds :
       \/ ExecuteBegin(c)
       \/ LoadOptionsBegin(c)
       \/ Construct(c)
       \/ ItemBegin(c)
       \/ SubmitSettles(c)
       \/ Download(c)
       \/ QuerySettles(c)
       \/ LoopExit(c)
       \/ LoadOptionsFetch(c)
       \/ LoadOptionsSettles(c)
       \/ Finally(c)
       \/ Finished(c)

Spec == Init /\ [][Next]_vars

\* the steps of the scenarios whose execute runs submit no generation job
NextPlain ==
    \E c \in CallIds :
       \/ ExecuteBegin(c)
       \/ LoadOptionsBegin(c)
       \/ Construct(c)
       \/ ItemBegin(c)
       \/ QuerySettles(c)
       \/ LoopExit(c)
       \/ LoadOptionsFetch(c)
       \/ LoadOptionsSettles(c)
       \/ Finally(c)
       \/ Finished(c)

\* one generation item, alone or followed by a balance query
OneGenerationItem == {<<k>> \o rest : k \in GenerateKinds, rest \in PlainItemSeqs}

\* SpecDownload: one generation item whose result carries up to
\* MaxDownloadUrls URLs, every outcome of every download
InitDownload ==
    /\ calls = NoCalls
    /\ issued = {}
    /\ cfg = [slots |-> {1}, kinds |-> CallKinds, itemSeqs |-> OneGenerationItem,
              cofs |-> BOOLEAN, creds |-> {Undefined}, uuids |-> {UuidNames[1]},
              inputs |-> "download", urls |-> 0..MaxDownloadUrls,
              outcomes |-> DownloadOutcomes]
    /\ client = NullClient
    /\ sd = IdleFrame

SpecDownload == InitDownload /\ [][Next]_vars

\* SpecAssets: one generation item, alone or followed by a balance query,
\* with every combination of named binaries and binary store
InitAssets ==
    /\ calls = NoCalls
    /\ issued = {}
    /\ cfg = [slots |-> {1}, kinds |-> CallKinds, itemSeqs |-> OneGenerationItem,
              cofs |-> BOOLEAN, creds |-> {Undefined}, uuids |-> {UuidNames[1]},
              inputs |-> "assets", urls |-> {0, 1}, outcomes |-> {"ok"}]
    /\ client = NullClient
    /\ sd = IdleFrame

SpecAssets == InitAssets /\ [][Next]_vars

\* the steps of an execute run that holds generation items only
NextGenerate ==
    \E c \in CallIds :
       \/ ExecuteBegin(c)
       \/ Construct(c)
       \/ ItemBegin(c)
       \/ SubmitSettles(c)
       \/ Download(c)
       \/ LoopExit(c)
       \/ Finally(c)
       \/ Finished(c)

\* SpecResolve: one generation item, every combination of the sources of
\* each of its fields
InitResolve ==
    /\ calls = NoCalls
    /\ issued = {}
    /\ cfg = [slots |-> {1}, kinds |-> {"execute"},
              itemSeqs |-> {<<k>> : k \in GenerateKinds},
              cofs |-> {TRUE}, creds |-> {Undefined}, uuids |-> {UuidNames[1]},
              inputs |-> "resolve", urls |-> {0, 1}, outcomes |-> {"ok"}]
    /\ client = NullClient
    /\ sd = IdleFrame

SpecResolve == InitResolve /\ [][NextGenerate]_vars

\* SpecResults: one generation item whose result carries each kind of job
\* list and up to one URL, every response to the download
InitResults ==
    /\ calls = NoCalls
    /\ issued = {}
    /\ cfg = [slots |-> {1}, kinds |-> {"execute"}, itemSeqs |-> {<<k>> : k \in GenerateKinds},
              cofs |-> {TRUE}, creds |-> {Undefined}, uuids |-> {UuidNames[1]},
              inputs |-> "results", urls |-> {0, 1}, outcomes |-> {"ok", "notOk"}]
    /\ client = NullClient
    /\ sd = IdleFrame

SpecResults == InitResults /\ [][NextGenerate]_vars

\* the steps of an option lookup
NextOptions ==
    \E c \in CallIds :
       \/ LoadOptionsBegin(c)
       \/ Construct(c)
       \/ LoadOptionsFetch(c)
       \/ LoadOptionsSettles(c)
       \/ Finally(c)
       \/ Finished(c)

\* SpecOptions: one option lookup of each of the three methods, over model
\* lists that differ in health fields, worker counts and families
InitOptions ==
    /\ calls = NoCalls
    /\ issued = {}
    /\ cfg = [slots |-> {1}, kinds |-> LoadOptionsKinds, itemSeqs |-> {<<>>},
              cofs |-> {FALSE}, creds |-> {Undefined}, uuids |-> {UuidNames[1]},
              inputs |-> "options", urls |-> {0}, outcomes |-> {"ok"}]
    /\ client = NullClient
    /\ sd = IdleFrame

SpecOptions == InitOptions /\ [][NextOptions]_vars

\* SpecIds: one host call, every value of credentials.appId
InitIds ==
    /\ calls = NoCalls
    /\ issued = {}
    /\ cfg = [slots |-> {1}, kinds |-> CallKinds, itemSeqs |-> PlainItemSeqs,
              cofs |-> BOOLEAN, creds |-> CredAppIds, uuids |-> Uuids,
              inputs |-> "none", urls |-> {0}, outcomes |-> {"ok"}]
    /\ client = NullClient
    /\ sd = IdleFrame

SpecIds == InitIds /\ [][NextPlain]_vars

\* SpecConc: MaxCalls host calls (execute, getModelOptions) interleaved at
\* their await points; the credentials carry no appId override
InitConc ==
    /\ calls = NoCalls
    /\ issued = {}
    /\ cfg = [slots |-> CallIds, kinds |-> {"execute", "getModelOptions"},
              itemSeqs |-> PlainItemSeqs, cofs |-> {TRUE}, creds |-> {Undefined},
              uuids |-> Uuids, inputs |-> "none", urls |-> {0}, outcomes |-> {"ok"}]
    /\ client = NullClient
    /\ sd = IdleFrame

SpecConc == InitConc /\ [][NextPlain]_vars

\* SpecNodeTs: host calls of getModelOptions of nodes/Sogni/Sogni.node.ts
InitNodeTs ==
    /\ calls = NoCalls
    /\ issued = {}
    /\ cfg = [slots |-> CallIds, kinds |-> {"getModelOptionsNodeTs"}, itemSeqs |-> {<<>>},
              cofs |-> {FALSE}, creds |-> CredAppIds, uuids |-> {},
              inputs |-> "none", urls |-> {0}, outcomes |-> {"ok"}]
    /\ client = NullClient
    /\ sd = IdleFrame

NextNodeTs ==
    \E c \in CallIds :
       \/ NodeTsLoadOptionsBegin(c)
       \/ NodeTsConstruct(c)
       \/ LoadOptionsFetch(c)
       \/ LoadOptionsSettles(c)
       \/ NodeTsFinally(c)
       \/ NodeTsFinished(c)

SpecNodeTs == InitNodeTs /\ [][NextNodeTs]_vars

\* SpecDisc: successive safeDisconnect calls on one client object
InitDisc ==
    /\ calls = NoCalls
    /\ issued = {}
    /\ cfg = NoConfig
    /\ client \in Clients \cup {NullClient}
    /\ sd = IdleFrame

NextDisc ==
    \/ SafeDisconnect
    \/ Tick
    \/ GracefulSettles
    \/ TimerFires
    \/ TransportCloses

SpecDisc == InitDisc /\ [][NextDisc]_vars

\* the event loop runs due timers, and time passes
SpecDiscFair == SpecDisc /\ WF_vars(Tick) /\ WF_vars(TimerFires)

(***************************************************************************)
(* Properties                                                              *)
(***************************************************************************)
CountOp(ops, name) == Cardinality({k \in DOMAIN ops : ops[k].op = name})
SubmitOps == {"createImageProject", "createImageEditProject", "createVideoProject"}
Executes == {c \in CallIds : calls[c].kind = "execute"}
Lookups == {c \in CallIds : calls[c].kind \in LoadOptionsKinds}
\* the call holds a client that it has not finished disconnecting
Live(c) == calls[c].hasClient /\ calls[c].pc # "done"
\* credentials.appId carries no usable override
NoOverride(v) == v.t # "string" \/ \A k \in DOMAIN v.s : v.s[k] \in WhiteSpace
\* the identity has the form `${prefix}-${uuid}`
Generated(appId, prefix) ==
    /\ appId.t = "string"
    /\ Len(appId.s) = 3
    /\ appId.s[1] = prefix /\ appId.s[2] = "-" /\ appId.s[3] \in Uuids

\* C1: no call of safeDisconnect ends by an exception: every call that has
\* ended has returned normally, whatever the client is and whatever its
\* disconnect and its transport do, the second call on a client included.
C1_SafeDisconnectNeverThrows ==
    /\ sd.threw = 0
    /\ sd.pc = "idle" => sd.returned = sd.invoked

\* two calls in succession have returned, the second one on a client whose
\* disconnect threw or rejected and whose transport threw as well
C1_Witness ==
    /\ sd.pc = "idle" /\ sd.invoked = 2 /\ sd.returned = 2
    /\ sd.graceful \in {"threw", "rejected"}
    /\ sd.wsThrew # {}

\* C2: while safeDisconnect waits for disconnect() it waits against a timer of
\* context.timeoutMs when that is a positive number and of 5000 ms otherwise,
\* never longer than that timer; a wait on a promise that never settles ends;
\* and a call whose timer won has still run the hard-close phase when it is over.
C2_DisconnectIsBounded ==
    /\ [](sd.pc = "racing" =>
            /\ sd.timeoutMs = (IF sd.ctx.t = "number" /\ sd.ctx.n > 0 THEN sd.ctx.n ELSE 5000)
            /\ sd.elapsed <= sd.timeoutMs)
    /\ [](sd.pc = "idle" /\ sd.graceful = "timedOut" => sd.hardClose /\ sd.returned >= 1)
    /\ ((sd.pc = "racing" /\ sd.promise = "pending") ~> (sd.pc = "idle"))

\* the timer won, and the hard-close phase closed the transport before the return
C2_Witness ==
    /\ sd.pc = "idle" /\ sd.graceful = "timedOut" /\ sd.returned >= 1
    /\ sd.hardClose /\ sd.wsCalls # <<>>

\* C3: an execute run that has constructed its client calls safeDisconnect at
\* most once, no operation is issued on the client after it, and a run that
\* has left execute (by return or by throw) has called it exactly once.
C3_ExecuteDisconnectsOnceAndLast ==
    \A c \in Executes :
       LET f == calls[c] IN
       f.hasClient =>
          /\ CountOp(f.ops, "safeDisconnect") <= 1
          /\ CountOp(f.ops, "safeDisconnect") = 1 => f.ops[Len(f.ops)].op = "safeDisconnect"
          /\ f.pc = "done" => CountOp(f.ops, "safeDisconnect") = 1

\* a run without continue-on-failure left execute by the error of its second
\* item, after a submit for the first, and safeDisconnect is its last operation
C3_Witness ==
    \E c \in Executes :
       LET f == calls[c] IN
       /\ f.pc = "done" /\ f.result = "threw" /\ ~f.cof
       /\ Len(f.raised) = 1 /\ f.raised[1].item = 1
       /\ Len(f.ops) >= 2 /\ f.ops[1].op \in SubmitOps
       /\ f.ops[Len(f.ops)].op = "safeDisconnect"

\* C4: a loadOptions call that has constructed its client and has returned or
\* rejected has called safeDisconnect exactly once, as its last operation on
\* the client, also when the search parameter or the model list failed.
C4_LookupAlwaysDisconnects ==
    \A c \in Lookups :
       LET f == calls[c] IN
       f.hasClient /\ (f.pc = "done" \/ f.result # "pending") =>
          /\ CountOp(f.ops, "safeDisconnect") = 1
          /\ f.ops[Len(f.ops)].op = "safeDisconnect"

\* a lookup rejected because the model list failed, and it has disconnected
C4_Witness ==
    \E c \in Lookups :
       LET f == calls[c] IN
       /\ f.pc = "done" /\ f.result = "threw" /\ f.thrown \in QueryErrors
       /\ f.ops[Len(f.ops)].op = "safeDisconnect"

\* C5: the client of every option lookup is constructed with a generated
\* appId, never with the appId of the credentials.
C5_LookupIdentityIsGenerated ==
    \A c \in CallIds :
       LET f == calls[c] IN
       f.kind \in LoadOptionsKinds \cup {"getModelOptionsNodeTs"} /\ f.hasClient =>
          /\ f.appId # f.credAppId
          /\ f.appId.s[1] \in {"n8n-sogni-loadopts", "n8n-model-picker"}

C7_OverrideUsedUnchanged ==
    \A c \in Executes :
       LET f == calls[c] IN
       f.hasClient =>
          IF NoOverride(f.credAppId)
          THEN Generated(f.appId, "n8n-sogni")
          ELSE f.appId = f.credAppId

\* C8: when the processing of item k raises an error, then with
\* continue-on-failure the output holds exactly one record for item k, the
\* error record with the message, and the loop goes on to item k+1 up to the
\* last item; without it the error is what execute throws, the loop stops at
\* k, nothing is issued for a later item and execute does not return.
C8_ItemErrorPolicy ==
    \A c \in Executes :
       LET f == calls[c] IN
       \A a \in DOMAIN f.raised :
          LET k == f.raised[a].item
              e == f.raised[a].e
              recs == {j \in DOMAIN f.returnData : f.returnData[j].item = k}
          IN  IF f.cof
              THEN /\ Cardinality(recs) = 1
                   /\ \A j \in recs :
                         /\ f.returnData[j].type = "error"
                         /\ f.returnData[j].error =
                               (IF e.t = "Error" THEN e.message ELSE "Unknown error")
                   /\ f.i > k
                   /\ f.thrown = NoError
                   /\ f.pc \in {"finally", "disconnecting", "done"} => f.i = Len(f.items)
              ELSE /\ Len(f.raised) = 1
                   /\ f.thrown = e
                   /\ f.i = k
                   /\ recs = {}
                   /\ \A j \in DOMAIN f.ops : f.ops[j].item <= k
                   /\ f.result # "returned"
                   /\ f.pc = "done" => f.result = "threw"

\* with continue-on-failure the first item failed and the second succeeded:
\* the run returned an error record followed by a success record
C8_Witness ==
    \E c \in Executes :
       LET f == calls[c] IN
       /\ f.cof /\ f.result = "returned"
       /\ Len(f.raised) = 1 /\ f.raised[1].item = 0
       /\ Len(f.returnData) = 2
       /\ f.returnData[1].type = "error" /\ f.returnData[1].item = 0
       /\ f.returnData[2].type = "success" /\ f.returnData[2].item = 1

\* C9: within an execute run the operations on the client are issued in item
\* order and only for the item in progress, an item has records only once its
\* processing is over, and the records are in item order.
C9_SequentialAndOrdered ==
    \A c \in Executes :
       LET f == calls[c] IN
       /\ \A a, b \in DOMAIN f.returnData :
             a < b => f.returnData[a].item <= f.returnData[b].item
       /\ \A a, b \in DOMAIN f.ops : a < b => f.ops[a].item <= f.ops[b].item
       /\ \A a \in DOMAIN f.returnData : f.returnData[a].item < f.i
       /\ \A a \in DOMAIN f.ops :
             f.ops[a].op # "safeDisconnect" =>
                IF f.pc \in {"submit", "download", "query"}
                THEN f.ops[a].item <= f.i
                ELSE f.ops[a].item < f.i \/ (f.ops[a].item = f.i /\ f.thrown # NoError)
       /\ f.pc \in {"submit", "download", "query"} =>
             /\ f.ops # <<>>
             /\ f.ops[Len(f.ops)].item = f.i

\* a run of two items returned: the record of the first, with a downloaded
\* binary, precedes the record of the second
C9_Witness ==
    \E c \in Executes :
       LET f == calls[c] IN
       /\ f.result = "returned" /\ Len(f.items) = 2 /\ Len(f.returnData) = 2
       /\ f.returnData[1].item = 0 /\ f.returnData[1].binary # {}
       /\ f.returnData[2].item = 1 /\ f.returnData[2].type = "success"

\* C10: in a run with continue-on-failure in which a submit timed out, the
\* one client of the run stays in use: the run throws nothing, no
\* safeDisconnect is issued while items remain, and the one safeDisconnect
\* comes after the last item has been processed.
C10_TimeoutKeepsSession ==
    \A c \in Executes :
       LET f == calls[c] IN
       (f.cof /\ \E a \in DOMAIN f.raised : f.raised[a].e = TimeoutError) =>
          /\ f.constructed = 1
          /\ f.thrown = NoError
          /\ CountOp(f.ops, "safeDisconnect") <= 1
          /\ f.i < Len(f.items) => CountOp(f.ops, "safeDisconnect") = 0
          /\ CountOp(f.ops, "safeDisconnect") = 1 =>
                /\ f.i = Len(f.items)
                /\ f.ops[Len(f.ops)].op = "safeDisconnect"

\* the submit of the first item timed out, the second item was submitted on
\* the client afterwards, and the run ended with its one safeDisconnect
C10_Witness ==
    \E c \in Executes :
       LET f == calls[c] IN
       /\ f.cof /\ f.pc = "done"
       /\ Len(f.raised) = 1 /\ f.raised[1] = [item |-> 0, e |-> TimeoutError]
       /\ Len(f.ops) = 3
       /\ f.ops[1].op \in SubmitOps /\ f.ops[1].item = 0
       /\ f.ops[2].op \in SubmitOps /\ f.ops[2].item = 1
       /\ f.ops[3].op = "safeDisconnect"

\* the positions of the download log that belong to item k
LogOf(f, k) == {a \in DOMAIN f.log : f.log[a].item = k}
\* the URL indices whose download succeeded for item k
Downloaded(f, k) == {f.log[a].url : a \in {b \in LogOf(f, k) : f.log[b].outcome = "ok"}}
\* the URL indices that have an artifact in a binary store
ArtifactUrls(binary) == {b.url : b \in binary}

\* C11: for an item whose result URLs are downloaded, the URLs are fetched
\* one after the other whatever the outcome of the earlier ones, no download
\* failure raises an item error, and once the item is over there is exactly
\* one record for it, a success record that lists every URL and holds an
\* artifact for exactly the URL indices whose download did not fail.
C11_PartialDownloads ==
    \A c \in Executes :
       LET f == calls[c] IN
       \A k \in {f.log[a].item : a \in DOMAIN f.log} :
          LET recs == {j \in DOMAIN f.returnData : f.returnData[j].item = k} IN
          /\ \A a \in LogOf(f, k) : f.log[a].url = Cardinality({b \in LogOf(f, k) : b < a})
          /\ \A a \in DOMAIN f.raised : f.raised[a].item # k
          /\ f.thrown = NoError \/ f.i > k
          /\ IF f.pc = "download" /\ f.i = k
             THEN /\ f.cur.u = Cardinality(LogOf(f, k))
                  /\ f.cur.u < f.cur.urls
                  /\ ArtifactUrls(f.cur.binary) = Downloaded(f, k)
                  /\ recs = {}
             ELSE /\ Cardinality(recs) = 1
                  /\ \A j \in recs :
                        /\ f.returnData[j].type = "success"
                        /\ f.returnData[j].urls = Cardinality(LogOf(f, k))
                        /\ ArtifactUrls(f.returnData[j].binary) = Downloaded(f, k)
                        /\ Cardinality(f.returnData[j].binary) = Cardinality(Downloaded(f, k))

\* three URLs, the second answered with a non-success status: the run
\* returned the record with all three URLs and the artifacts of indices 0 and 2
C11_Witness ==
    \E c \in Executes :
       LET f == calls[c] IN
       /\ f.result = "returned" /\ Len(f.log) = 3
       /\ f.log[1].outcome = "ok" /\ f.log[2].outcome = "notOk" /\ f.log[3].outcome = "ok"
       /\ f.returnData[1].type = "success" /\ f.returnData[1].urls = 3
       /\ ArtifactUrls(f.returnData[1].binary) = {0, 2}

\* the slot of the artifact of URL index u: the singular name for index 0,
\* the name suffixed with the index otherwise
SlotOf(kind, u) ==
    LET name == IF kind = "videoGenerate" THEN "video" ELSE "image"
    IN  IF u = 0 THEN <<name>> ELSE <<name, "_", IndexString(u)>>

\* every binary store of a generation item, finished or in progress
OutputStores(f) ==
    {[kind |-> f.returnData[j].kind, binary |-> f.returnData[j].binary] :
        j \in {a \in DOMAIN f.returnData : f.returnData[a].type = "success"}}
    \cup (IF f.pc = "download"
          THEN {[kind |-> f.items[f.i + 1], binary |-> f.cur.binary]} ELSE {})

\* C12: in every binary store the artifact of URL index 0 sits in the slot
\* 'image' ('video' for a video item) and the artifact of URL index u > 0 in
\* 'image_<u>' ('video_<u>'), whichever earlier downloads failed, and no two
\* artifacts share a slot.
C12_SlotByUrlIndex ==
    \A c \in Executes :
       \A st \in OutputStores(calls[c]) :
          /\ \A b \in st.binary : b.property = SlotOf(st.kind, b.url)
          /\ \A b1, b2 \in st.binary : b1.property = b2.property => b1 = b2

\* the download of URL 0 failed and those of URLs 1 and 2 succeeded: the
\* record holds exactly the slots image_1 and image_2
C12_Witness ==
    \E c \in Executes :
       LET f == calls[c] IN
       /\ f.result = "returned" /\ Len(f.log) = 3
       /\ f.log[1].outcome # "ok" /\ f.log[2].outcome = "ok" /\ f.log[3].outcome = "ok"
       /\ f.returnData[1].kind = "imageGenerate"
       /\ {b.property : b \in f.returnData[1].binary}
             = {<<"image", "_", "1">>, <<"image", "_", "2">>}

\* the first of two sources that is neither null nor undefined, else the default
FirstDefined(a, b, default) ==
    IF a.t \notin {"undefined", "null"} THEN a
    ELSE IF b.t \notin {"undefined", "null"} THEN b ELSE default
\* the property of a group of additionalFields, undefined when the group is missing
GroupField(additional, group, name) ==
    IF additional[group] = Undefined THEN Undefined ELSE additional[group][name]
\* the messages of the errors raised for a named binary that is absent
MissingBinaryMessages ==
    {"No binary data found in property \"${imagePropertyName}\". Please provide a control image.",
     "No binary data found in property \"${contextImage1Property}\". Please provide a context image.",
     "No binary data found in property \"${propertyName}\" for ${label}."}
\* the positions of the items of a run whose generation parameters were read
ItemsRead(f) == {k \in 0..(Len(f.inputs) - 1) : f.inputs[k + 1] # NoInput}
\* the required binary an item names: the control image when ControlNet is
\* enabled, context image 1 of an edit; undefined when it requires none
RequiredBinary(kind, input) ==
    CASE kind = "imageGenerate" ->
           LET enable == FirstDefined(GroupField(input.additional, "controlNet", "enableControlNet"),
                                      input.additional.flat.enableControlNet, Bool(FALSE))
           IN  IF enable = Bool(TRUE)
               THEN FirstDefined(GroupField(input.additional, "controlNet", "controlNetImageProperty"),
                                 input.additional.flat.controlNetImageProperty,
                                 Str(<<"d", "a", "t", "a">>))
               ELSE Undefined
      [] kind = "imageEdit" -> input.contextImage1Property
      [] OTHER -> Undefined

\* C13: an item whose required binary (the control image with ControlNet
\* enabled, context image 1 of an edit) is absent from its store raises one
\* error that names the property and carries the item index; nothing is
\* submitted for the item; with continue-on-failure the run goes on to the
\* following items and returns, without it the error is what the run throws.
C13_MissingRequiredBinary ==
    \A c \in Executes :
       LET f == calls[c] IN
       \A k \in ItemsRead(f) :
          LET required == RequiredBinary(f.items[k + 1], f.inputs[k + 1])
              errors == {a \in DOMAIN f.raised : f.raised[a].item = k}
          IN  (required # Undefined /\ required.s \notin f.inputs[k + 1].binary) =>
                 /\ Cardinality(errors) = 1
                 /\ \A a \in errors :
                       /\ f.raised[a].e.t = "Error"
                       /\ f.raised[a].e.message \in MissingBinaryMessages
                       /\ f.raised[a].e.property = required
                       /\ f.raised[a].e.itemIndex = k
                       /\ IF f.cof
                          THEN /\ f.thrown = NoError
                               /\ f.i > k
                               /\ f.pc = "done" =>
                                     /\ f.result = "returned"
                                     /\ f.i = Len(f.items)
                          ELSE f.thrown = f.raised[a].e
                 /\ \A a \in DOMAIN f.ops : f.ops[a].item = k => f.ops[a].op = "safeDisconnect"

\* with continue-on-failure an edit whose context image 1 is absent gave an
\* error record, and the balance query after it gave its record
C13_Witness ==
    \E c \in Executes :
       LET f == calls[c] IN
       /\ f.cof /\ f.result = "returned"
       /\ f.items = <<"imageEdit", "accountGetBalance">>
       /\ f.inputs[1] # NoInput /\ f.inputs[1].contextImage1Property.s \notin f.inputs[1].binary
       /\ Len(f.returnData) = 2
       /\ f.returnData[1].type = "error" /\ f.returnData[2].type = "success"
       /\ f.ops[1].op = "getBalance"

\* the optional bindings of an item whose parameter names a binary that the
\* store of the item does not hold: context images 2 and 3 of an edit, the
\* four references of a video
AbsentOptional(kind, input) ==
    CASE kind = "imageEdit" ->
           {n \in {"contextImage2Property", "contextImage3Property"} :
               /\ Trim(input[n].s) # <<>>
               /\ input[n].s \notin input.binary}
      [] kind = "videoGenerate" ->
           {ReferenceBindings[b].name : b \in
               {x \in DOMAIN ReferenceBindings :
                   LET v == GroupField(input.additional, "inputs", ReferenceBindings[x].name)
                   IN  /\ v.t = "string"
                       /\ Trim(v.s) # <<>>
                       /\ Trim(v.s) \notin input.binary}}
      [] OTHER -> {}
\* the request field a reference binding of a video fills
ReferenceField(name) ==
    CASE name = "referenceImageProperty" -> "referenceImage"
      [] name = "referenceImageEndProperty" -> "referenceImageEnd"
      [] name = "referenceAudioProperty" -> "referenceAudio"
      [] name = "referenceVideoProperty" -> "referenceVideo"

\* C14: an optional binding (context image 2 or 3 of an edit, a reference of
\* a video) whose named binary is absent from the item's store raises no
\* error, and the request submitted for the item leaves that binding out.
C14_AbsentOptionalIsOmitted ==
    \A c \in Executes :
       LET f == calls[c] IN
       \A k \in ItemsRead(f) :
          LET kind == f.items[k + 1]
              input == f.inputs[k + 1]
          IN  \A n \in AbsentOptional(kind, input) :
                 /\ \A a \in DOMAIN f.raised :
                       f.raised[a].item = k => f.raised[a].e.message \notin MissingBinaryMessages
                       \/ (kind = "imageEdit" /\ f.raised[a].e.property = input.contextImage1Property)
                 /\ \A a \in DOMAIN f.ops :
                       (f.ops[a].item = k /\ f.ops[a].op \in SubmitOps) =>
                          IF kind = "imageEdit"
                          THEN \A x \in DOMAIN f.ops[a].request.contextImages :
                                  x > 1 => f.ops[a].request.contextImages[x] # input[n]
                          ELSE f.ops[a].request[ReferenceField(n)] = Undefined

\* the documented defaults of image / generate; undefined where there is none
ImageDefaults ==
    [steps |-> Num(20), guidance |-> Dec(7, 5), negativePrompt |-> Str(<<>>),
     stylePrompt |-> Str(<<>>), seed |-> Undefined, tokenType |-> Str(<<"spark">>),
     downloadImages |-> Bool(TRUE), outputFormat |-> Str(<<"png">>), sizePreset |-> Undefined,
     width |-> Undefined, height |-> Undefined, timeout |-> Undefined,
     enableControlNet |-> Bool(FALSE), controlNetType |-> Undefined,
     controlNetImageProperty |-> Str(<<"d", "a", "t", "a">>), controlNetStrength |-> Dec(0, 5),
     controlNetMode |-> Str(<<"balanced">>), controlNetGuidanceStart |-> Num(0),
     controlNetGuidanceEnd |-> Num(1)]
\* the fields of the project config that carry a resolved field under its own name
ImageConfigFields ==
    {"steps", "guidance", "negativePrompt", "stylePrompt", "seed", "tokenType",
     "outputFormat", "sizePreset", "width", "height"}
\* the property of projectConfig.controlNet that carries a ControlNet field
ControlNetConfigFields ==
    [controlNetType |-> "name", controlNetImageProperty |-> "image",
     controlNetStrength |-> "strength", controlNetMode |-> "mode",
     controlNetGuidanceStart |-> "guidanceStart", controlNetGuidanceEnd |-> "guidanceEnd"]
\* the two sources of a field of image / generate: its group, the flat shape
GroupedSource(input, name) == GroupField(input.additional, ImageFieldGroups[name], name)
FlatSource(input, name) == input.additional.flat[name]
\* what the field is expected to resolve to
ExpectedImageField(input, name) ==
    FirstDefined(GroupedSource(input, name), FlatSource(input, name), ImageDefaults[name])
\* v is the expected value; where nothing is expected, v is null or undefined
Matches(v, expected) ==
    IF expected = Undefined THEN v.t \in {"undefined", "null"} ELSE v = expected
\* neither source of the field holds NaN
NoNaNSource(input, name) ==
    GroupedSource(input, name).t # "nan" /\ FlatSource(input, name).t # "nan"
\* the positions of the submits issued for item k
SubmitsOf(f, k) == {a \in DOMAIN f.ops : f.ops[a].item = k /\ f.ops[a].op \in SubmitOps}
\* the items of a kind whose generation parameters were read
ItemsReadOf(f, kind) == {k \in ItemsRead(f) : f.items[k + 1] = kind}

NumericRequestFields ==
    {"steps", "guidance", "timeout", "frames", "fps", "numberOfMedia", "width", "height"}
\* a parameter collection with every NaN taken out
WithoutNaN(group) ==
    IF group = Undefined THEN Undefined
    ELSE [n \in DOMAIN group |-> IF group[n] = NaN THEN Undefined ELSE group[n]]
\* the parameters of an item with every NaN taken out of every collection
InputWithoutNaN(input) ==
    [input EXCEPT !.additional = [g \in DOMAIN input.additional |->
                                     WithoutNaN(input.additional[g])]]

\* C16: for every generation kind, no numeric field of a submitted request is
\* NaN, and the request is the one the same parameters give with every NaN
\* source left undefined.
C16_NaNIsUndefined ==
    \A c \in Executes :
       LET f == calls[c] IN
       \A kind \in GenerateKinds :
          \A k \in ItemsReadOf(f, kind) :
             \A a \in SubmitsOf(f, k) :
                LET request == f.ops[a].request IN
                /\ \A name \in NumericRequestFields \cap DOMAIN request :
                      request[name] # NaN
                /\ request = BuildRequest(kind, InputWithoutNaN(f.inputs[k + 1]), k).request

\* the timeout the sources of an item supply: the group advanced, and for
\* image / generate the flat shape after it
TimeoutSource(kind, input) ==
    FirstDefined(GroupField(input.additional, "advanced", "timeout"),
                 IF kind = "imageGenerate" THEN input.additional.flat.timeout ELSE Undefined,
                 Undefined)
\* the network tier of an item
NetworkTier(kind, input) ==
    IF kind = "imageGenerate"
    THEN FirstDefined(input.network, input.additional.flat.network, Str(<<"fast">>))
    ELSE input.network
\* the documented default timeout of a kind under a tier, in ms
TierDefaultMs(kind, tier) ==
    IF kind = "videoGenerate"
    THEN (IF tier = Str(<<"fast">>) THEN 120000 ELSE 1200000)
    ELSE (IF tier = Str(<<"fast">>) THEN 60000 ELSE 600000)

LightningModelIds ==
    {<<"x", "-", "l", "i", "g", "h", "t", "n", "i", "n", "g">>,
     <<"L", "I", "G", "H", "T", "N", "I", "N", "G", "-", "x">>,
     <<"L", "i", "g", "h", "t", "N", "i", "n", "g">>}
\* the request field of an edit is the supplied number, or the default of
\* the model when none is supplied
EditFieldResolved(v, supplied, modelId, fast, standard) ==
    /\ supplied.t \in {"undefined", "null"} =>
          v = (IF modelId \in LightningModelIds THEN fast ELSE standard)
    /\ supplied.t = "number" => v = supplied

\* C18: in the request of an edit, steps left undefined is 4 when the model
\* id contains 'lightning' in any letter case and 20 otherwise, guidance left
\* undefined is 1.0 resp. 4.0, each of the two independently of the other,
\* and a supplied number is kept.
C18_EditDefaultsFromModel ==
    \A c \in Executes :
       LET f == calls[c] IN
       \A k \in ItemsReadOf(f, "imageEdit") :
          LET input == f.inputs[k + 1] IN
          \A a \in SubmitsOf(f, k) :
             /\ EditFieldResolved(f.ops[a].request.steps,
                                  GroupField(input.additional, "generationSettings", "steps"),
                                  input.modelId, Num(4), Num(20))
             /\ EditFieldResolved(f.ops[a].request.guidance,
                                  GroupField(input.additional, "generationSettings", "guidance"),
                                  input.modelId, Num(1), Num(4))

\* an edit with the marker in upper case, no steps and guidance 7 was
\* submitted with steps 4 and guidance 7
C18_Witness ==
    \E c \in Executes :
       LET f == calls[c] IN
       /\ f.pc = "submit" /\ f.items[f.i + 1] = "imageEdit"
       /\ f.inputs[f.i + 1].modelId = <<"L", "I", "G", "H", "T", "N", "I", "N", "G", "-", "x">>
       /\ GroupField(f.inputs[f.i + 1].additional, "generationSettings", "steps") = Undefined
       /\ GroupField(f.inputs[f.i + 1].additional, "generationSettings", "guidance") = Num(7)
       /\ f.ops[Len(f.ops)].request.steps = Num(4)
       /\ f.ops[Len(f.ops)].request.guidance = Num(7)

\* the smallest value of the form 8n+1 that is not less than r, for r >= 1
SmallestFormAtLeast(r) == ((r + 6) \div 8) * 8 + 1
\* the frame count a video item asks for: videoSettings.frames, 30 without it
RequestedFrames(input) ==
    FirstDefined(GroupField(input.additional, "videoSettings", "frames"), Undefined, Num(30))
\* the video items of the quantized family whose requested frame count is a
\* number
QuantizedItems(f) ==
    {k \in ItemsReadOf(f, "videoGenerate") :
        /\ Len(f.inputs[k + 1].modelId) >= 5
        /\ SubSeq(f.inputs[k + 1].modelId, 1, 5) \in
              {<<"l", "t", "x", "2", "-">>, <<"L", "T", "X", "2", "-">>}
        /\ RequestedFrames(f.inputs[k + 1]).t = "number"}

\* C19: for a model id that starts with 'ltx2-' in any letter case, the
\* frame count of the request is the requested count rounded up to the next
\* value of the form 8n+1, and 9 at least: max(9, smallest 8n+1 >= requested).
C19_FramesRoundedUp ==
    \A c \in Executes :
       LET f == calls[c] IN
       \A k \in QuantizedItems(f) :
          LET r == RequestedFrames(f.inputs[k + 1]).n IN
          \A a \in SubmitsOf(f, k) :
             f.ops[a].request.frames =
                Num(IF r >= 1 THEN MathMax(9, SmallestFormAtLeast(r)) ELSE 9)

\* C20: for a model id that starts with 'ltx2-' and a requested frame count
\* in the accepted range (the default 30 included), the frame count of the
\* request is congruent to 1 modulo 8, at least 9, and at most the smallest
\* value of the form 8n+1 that is not less than the requested count.
C20_FramesQuantized ==
    \A c \in Executes :
       LET f == calls[c] IN
       \A k \in QuantizedItems(f) :
          LET r == RequestedFrames(f.inputs[k + 1]).n IN
          r \in FramesMinValue..FramesMaxValue =>
             \A a \in SubmitsOf(f, k) :
                LET frames == f.ops[a].request.frames IN
                /\ frames.t = "number"
                /\ frames.n % 8 = 1
                /\ frames.n >= 9
                /\ frames.n <= SmallestFormAtLeast(r)

\* a video of the quantized family was submitted without a frame count, and
\* its request carries 33 frames for the default 30
C20_Witness ==
    \E c \in Executes :
       LET f == calls[c] IN
       /\ f.pc = "submit" /\ f.i \in QuantizedItems(f)
       /\ GroupField(f.inputs[f.i + 1].additional, "videoSettings", "frames") = Undefined
       /\ f.ops[Len(f.ops)].request.frames = Num(33)

\* the calls that are option lookups and have built their option list
BuiltLookups ==
    {c \in Lookups : calls[c].pc \in {"finally", "disconnecting", "done"}
                      /\ calls[c].thrown = NoError}
\* the option carries the mark of a recommended model
MarkedRecommended(option) ==
    option.name # <<>> /\ option.name[Len(option.name)] \in {" (recommended)", " *"}
\* healthy as read from the first health-indicating field that is present,
\* workers > 0 when none is
HealthyFromPresentField(model) ==
    IF ~Nullish(model.health) THEN model.health = Str(<<"healthy">>)
    ELSE IF ~Nullish(model.status) THEN model.status = Str(<<"healthy">>)
    ELSE IF ~Nullish(model.healthy) THEN model.healthy = Bool(TRUE)
    ELSE Workers(model).n > 0

\* C21: every entry of an option list is marked recommended exactly when its
\* model is healthy and has at least 5 workers, healthy being read from the
\* health-indicating field that is present (health, status, healthy) and
\* being workers > 0 only when none of them is present.
C21_RecommendedFromHealthField ==
    \A c \in BuiltLookups :
       LET f == calls[c] IN
       \A k \in DOMAIN f.options :
          \A j \in DOMAIN f.models :
             f.models[j].id = f.options[k].value =>
                (MarkedRecommended(f.options[k])
                   <=> (HealthyFromPresentField(f.models[j]) /\ Workers(f.models[j]).n >= 5))

\* the ids of the model entries that belong to the family of a lookup
FamilyIds(kind) ==
    IF kind = "getVideoModelOptions"
    THEN {<<"w", "a", "n", "_", "a">>, <<"L", "T", "X", "2", "-", "a">>, <<"x">>, <<"y">>}
    ELSE {<<"q", "w", "e", "n", "_", "i", "m", "a", "g", "e", "_", "e", "d", "i", "t">>, <<"q", "w", "e", "n", "_", "i", "m", "a", "g", "e", "_", "e", "d", "i", "t", "_", "l", "i", "g", "h", "t", "n", "i", "n", "g">>, <<"z">>}
\* the models of the list that belong to the family, in the order received
InFamily(kind, models) ==
    LET Belongs(m) == m.id.s \in FamilyIds(kind) IN SelectSeq(models, Belongs)

\* C22: the option list of getVideoModelOptions and of
\* getImageEditModelOptions is never empty: it is the single placeholder
\* with the empty value when no model of the list belongs to the family, and
\* otherwise one entry per model of the family, in the order received, and
\* no placeholder.
C22_FamilyListNeverEmpty ==
    \A c \in BuiltLookups :
       LET f == calls[c]
           passing == InFamily(f.kind, f.models)
       IN  f.kind \in {"getVideoModelOptions", "getImageEditModelOptions"} =>
              /\ f.options # <<>>
              /\ IF passing = <<>>
                 THEN /\ Len(f.options) = 1
                      /\ f.options[1].value = Str(<<>>)
                      /\ f.options[1] \in {VideoPlaceholder, ImageEditPlaceholder}
                 ELSE /\ Len(f.options) = Len(passing)
                      /\ \A k \in DOMAIN passing : f.options[k].value = passing[k].id

\* a video lookup received one model outside the family and returned the
\* placeholder alone
C22_Witness ==
    \E c \in BuiltLookups :
       /\ calls[c].kind = "getVideoModelOptions" /\ calls[c].result = "returned"
       /\ Len(calls[c].models) = 1 /\ calls[c].models[1].id = Str(<<"f", "l", "u", "x">>)
       /\ calls[c].options = <<VideoPlaceholder>>

\* the records of the run that are the result of a generation item
GenerationRecords(f) ==
    {j \in DOMAIN f.returnData :
        f.returnData[j].type = "success" /\ f.returnData[j].kind \in GenerateKinds}
\* the job list of the remote result of item k
RemoteJobsOf(f, k) == (CHOOSE r \in {f.results[a] : a \in DOMAIN f.results} : r.item = k).jobs

\* C23: the jobs field of the record of a generation is the list of the
\* {id, status} pairs of the remote job list, of the same length and in the
\* same order, when that list is an array, and is left out (no empty list)
\* when it is missing, null or an object.
C23_JobsOnlyFromArray ==
    \A c \in Executes :
       LET f == calls[c] IN
       \A j \in GenerationRecords(f) :
          LET record == f.returnData[j]
              remote == RemoteJobsOf(f, record.item)
          IN  IF remote.t = "array"
              THEN /\ record.jobs.t = "array"
                   /\ Len(record.jobs.items) = Len(remote.items)
                   /\ \A k \in DOMAIN remote.items :
                         record.jobs.items[k] = [id |-> remote.items[k].id,
                                                 status |-> remote.items[k].status]
              ELSE record.jobs = Undefined

\* a video record carries the pairs of job2 and job1, in the order of the
\* remote list
C23_Witness ==
    \E c \in Executes :
       LET f == calls[c] IN
       /\ f.result = "returned" /\ Len(f.returnData) = 1
       /\ f.returnData[1].kind = "videoGenerate"
       /\ f.returnData[1].jobs = Arr(<<[id |-> "job2", status |-> "failed"],
                                       [id |-> "job1", status |-> "completed"]>>)

\* the stores of downloaded artifacts with the item they belong to: of the
\* records pushed, and of the item whose downloads are in progress
ItemStores(f) ==
    {[item |-> f.returnData[j].item, kind |-> f.returnData[j].kind,
      binary |-> f.returnData[j].binary] : j \in GenerationRecords(f)}
    \cup (IF f.pc = "download"
          THEN {[item |-> f.i, kind |-> f.items[f.i + 1], binary |-> f.cur.binary]} ELSE {})
\* the response the artifact of URL u of item k was downloaded from
ResponseOf(f, k, u) ==
    f.log[CHOOSE a \in DOMAIN f.log :
             f.log[a].item = k /\ f.log[a].url = u /\ f.log[a].outcome = "ok"].response
\* the request submitted for item k
RequestOf(f, k) == f.ops[CHOOSE a \in SubmitsOf(f, k) : TRUE].request
\* the type the signature at the start of a body of 4 bytes or more stands
\* for, undefined when there is none
SignatureType(body) ==
    IF Len(body) >= 4 /\ startsWith(body, <<255, 216, 255>>) THEN Str(<<"image/jpeg">>)
    ELSE IF startsWith(body, <<137, 80, 78, 71, 13, 10, 26, 10>>) THEN Str(<<"image/png">>)
    ELSE IF startsWith(body, <<71, 73, 70, 56, 55, 97>>)
            \/ startsWith(body, <<71, 73, 70, 56, 57, 97>>) THEN Str(<<"image/gif">>)
    ELSE Undefined
\* the type of last resort of an artifact
FallbackType(kind, request) ==
    IF kind = "videoGenerate" THEN Str(<<"video/">> \o request.outputFormat.s)
    ELSE Str(<<"application/octet-stream">>)
\* the content-type header is there and not empty
Declared(response) == response.headerCt.t = "string" /\ response.headerCt.s # <<>>

\* C24 as stated: the content type of every downloaded artifact, image or
\* video, is the declared type when the response declares one, else the type
\* of the PNG, JPEG or GIF signature of the body, else application/octet-stream
\* for an image and video/<output format> for a video.
C24_ContentTypeOrder ==
    \A c \in Executes :
       LET f == calls[c] IN
       \A st \in ItemStores(f) :
          \A b \in st.binary :
             LET response == ResponseOf(f, st.item, b.url) IN
             b.mimeType =
                (IF Declared(response) THEN response.headerCt
                 ELSE IF SignatureType(response.body) # Undefined
                 THEN SignatureType(response.body)
                 ELSE FallbackType(st.kind, RequestOf(f, st.item)))

\* C24 amended: the content type of a downloaded artifact is the declared
\* type when the response declares one; else, for an image artifact only,
\* the type of the PNG, JPEG or GIF signature of the body; else
\* application/octet-stream for an image and video/<output format> for a
\* video, whose body is never sniffed.
C24_ContentTypeByKind ==
    \A c \in Executes :
       LET f == calls[c] IN
       \A st \in ItemStores(f) :
          \A b \in st.binary :
             LET response == ResponseOf(f, st.item, b.url) IN
             b.mimeType =
                (IF Declared(response) THEN response.headerCt
                 ELSE IF st.kind # "videoGenerate" /\ SignatureType(response.body) # Undefined
                 THEN SignatureType(response.body)
                 ELSE FallbackType(st.kind, RequestOf(f, st.item)))

\* an image was downloaded from a response without content type whose body
\* starts with the PNG signature, and is stored as image/png
C24_Witness ==
    \E c \in Executes :
       LET f == calls[c] IN
       /\ f.result = "returned" /\ Len(f.returnData) = 1
       /\ f.returnData[1].kind = "imageGenerate"
       /\ \E b \in f.returnData[1].binary :
             /\ b.mimeType = Str(<<"image/png">>)
             /\ ResponseOf(f, 0, b.url) = Response(Undefined, PngSignature)

\* the ControlNet parameters of image / generate: the field of the request
\* each one fills and the default its description documents
ImageControlNetFields ==
    [controlNetType |-> [field |-> "name", default |-> Str(<<"canny">>)],
     controlNetStrength |-> [field |-> "strength", default |-> Dec(0, 5)],
     controlNetMode |-> [field |-> "mode", default |-> Str(<<"balanced">>)],
     controlNetGuidanceStart |-> [field |-> "guidanceStart", default |-> Num(0)],
     controlNetGuidanceEnd |-> [field |-> "guidanceEnd", default |-> Num(1)]]
\* the ControlNet parameters of video / generate, likewise
VideoControlNetFields ==
    [videoControlNetType |-> [field |-> "name", default |-> Str(<<"canny">>)],
     videoControlNetStrength |-> [field |-> "strength", default |-> Dec(0, 8)]]
\* the requests of item k that carry a ControlNet configuration
ControlNetRequests(f, k) ==
    {f.ops[a].request : a \in {b \in SubmitsOf(f, k) : f.ops[b].request.controlNet # Undefined}}

\* C25: with ControlNet enabled, every ControlNet field that no source
\* supplies is sent with its documented default: for an image type canny,
\* strength 0.5, mode balanced, guidance start 0 and end 1; for a video type
\* canny and strength 0.8.
C25_ControlNetDefaults ==
    \A c \in Executes :
       LET f == calls[c] IN
       /\ \A k \in ItemsReadOf(f, "imageGenerate") :
             LET additional == f.inputs[k + 1].additional
                 cn == OrEmptyObject(additional.controlNet)
                 legacy == OrEmptyObject(additional.flat)
             IN  \A request \in ControlNetRequests(f, k) :
                    \A name \in DOMAIN ImageControlNetFields :
                       cn[name] = Undefined /\ legacy[name] = Undefined =>
                          request.controlNet[ImageControlNetFields[name].field] =
                             ImageControlNetFields[name].default
       /\ \A k \in ItemsReadOf(f, "videoGenerate") :
             LET videoWorkflow == OrEmptyObject(f.inputs[k + 1].additional.workflowControls)
             IN  \A request \in ControlNetRequests(f, k) :
                    \A name \in DOMAIN VideoControlNetFields :
                       videoWorkflow[name] = Undefined =>
                          request.controlNet[VideoControlNetFields[name].field] =
                             VideoControlNetFields[name].default

\* C25, the fields the code does default: the strength, mode and guidance
\* window of an image, the type of a video
C25_DefaultedFields ==
    \A c \in Executes :
       LET f == calls[c] IN
       /\ \A k \in ItemsReadOf(f, "imageGenerate") :
             LET additional == f.inputs[k + 1].additional
                 cn == OrEmptyObject(additional.controlNet)
                 legacy == OrEmptyObject(additional.flat)
             IN  \A request \in ControlNetRequests(f, k) :
                    \A name \in DOMAIN ImageControlNetFields \ {"controlNetType"} :
                       cn[name] = Undefined /\ legacy[name] = Undefined =>
                          request.controlNet[ImageControlNetFields[name].field] =
                             ImageControlNetFields[name].default
       /\ \A k \in ItemsReadOf(f, "videoGenerate") :
             LET videoWorkflow == OrEmptyObject(f.inputs[k + 1].additional.workflowControls)
             IN  \A request \in ControlNetRequests(f, k) :
                    videoWorkflow.videoControlNetType = Undefined =>
                       request.controlNet.name = Str(<<"canny">>)

\* the records of item k in the output of a call
RecordsOf(f, k) == {a \in DOMAIN f.returnData : f.returnData[a].item = k}

\* C26: no input item is dropped without a trace: when a run returns
\* normally, its output holds, for each input item and whatever the selector
\* of the item, a success record or an error record of that item.
C26_NoItemDropped ==
    \A c \in Executes :
       LET f == calls[c] IN
       f.result = "returned" =>
          \A k \in 0..(Len(f.items) - 1) : RecordsOf(f, k) # {}

\* C26 for the selectors that push one record: every item of a generation,
\* a cost estimate, a model lookup or a balance has a record in the output of
\* a run that returns
C26_SingleRecordKinds ==
    \A c \in Executes :
       LET f == calls[c] IN
       f.result = "returned" =>
          \A k \in 0..(Len(f.items) - 1) :
             f.items[k + 1] \notin {"other", "modelGetAll"} => RecordsOf(f, k) # {}

\* the steps of the hard-close phase, in the order of the code
HardCloseSteps == <<"close", "terminate", "removeAllListeners">>
\* typeof ws[step] === 'function'
Offers(cl, step) ==
    CASE step = "close" -> cl.hasClose
      [] step = "terminate" -> cl.hasTerminate
      [] step = "removeAllListeners" -> cl.hasRemoveAllListeners
\* a step the last safeDisconnect call is due to take on the handle it found:
\* one the handle offers, and for close and terminate a handle not yet closed
StepDue(step) ==
    /\ Offers(client, step)
    /\ step \in {"close", "terminate"} => sd.before # 3
\* the last safeDisconnect call on a client that is there has ended
DisconnectEnded == sd.pc = "idle" /\ sd.invoked > 0 /\ ~client.isNull

\* C27: whether the graceful disconnect resolved, rejected, threw, timed out
\* or was absent, safeDisconnect goes on to probe the client for a transport
\* handle; on a handle whose readyState is not 3 it calls close(), then
\* terminate(), then removeAllListeners(), in that order and each of the
\* methods the handle offers, a later one also after an earlier one threw; on
\* a handle whose readyState is 3 it calls neither close() nor terminate().
C27_HardCloseSequence ==
    DisconnectEnded =>
       /\ sd.graceful \in {"resolved", "rejected", "threw", "timedOut", "absent"}
       /\ sd.hardClose
       /\ sd.found => sd.wsCalls = SelectSeq(HardCloseSteps, StepDue)
       /\ sd.found /\ sd.before = 3 =>
             \A k \in DOMAIN sd.wsCalls : sd.wsCalls[k] = "removeAllListeners"

\* the graceful disconnect timed out, the handle found was open, close() and
\* terminate() both threw, and all three methods were called in order
C27_Witness ==
    /\ DisconnectEnded /\ sd.graceful = "timedOut" /\ sd.found /\ sd.before = 1
    /\ sd.wsCalls = HardCloseSteps
    /\ sd.wsThrew = {"close", "terminate"}

\* a handle found closed: only removeAllListeners() was called
C27_ClosedWitness ==
    /\ DisconnectEnded /\ sd.found /\ sd.before = 3
    /\ sd.wsCalls = <<"removeAllListeners">>

\* the SAM2 coordinates text of a video item, trimmed
Sam2Text(input) ==
    Trim(Coalesce(<<GroupField(input.additional, "workflowControls", "sam2CoordinatesJson"),
                    Str(<<>>)>>).s)
\* the text is not valid JSON, or not a non-empty array, or holds a point
\* whose x or y is not a number
InvalidSam2(text) ==
    /\ text # <<>>
    /\ LET parsed == JSONParse(text) IN
       \/ parsed.t # "array"
       \/ Len(parsed.items) = 0
       \/ \E k \in DOMAIN parsed.items :
             parsed.items[k].x.t # "number" \/ parsed.items[k].y.t # "number"
\* the text is rejected by the code: as InvalidSam2, with the x and y of a
\* point taken through Number()
RejectedSam2(text) ==
    /\ text # <<>>
    /\ LET parsed == JSONParse(text) IN
       \/ parsed.t # "array"
       \/ Len(parsed.items) = 0
       \/ \E k \in DOMAIN parsed.items :
             ~IsFinite(ToNumber(parsed.items[k].x)) \/ ~IsFinite(ToNumber(parsed.items[k].y))
\* a binary the item names or requires is missing from its store: the control
\* image, context image 1 of an edit, a named reference of a video
MissingBinary(kind, input) ==
    \/ LET required == RequiredBinary(kind, input) IN
          required # Undefined /\ required.s \notin input.binary
    \/ kind = "videoGenerate" /\ AbsentOptional(kind, input) # {}

\* C28: validation comes before the submit: for an item that names or
\* requires a binary its store does not hold, or whose SAM2 coordinates text
\* is not valid JSON, is not a non-empty array, or holds a point without
\* numeric x and y, no createImageProject, createImageEditProject or
\* createVideoProject call is issued.
C28_ValidationBeforeSubmit ==
    \A c \in Executes :
       LET f == calls[c] IN
       \A k \in ItemsRead(f) :
          LET kind == f.items[k + 1]
              input == f.inputs[k + 1]
          IN  (\/ MissingBinary(kind, input)
               \/ kind = "videoGenerate" /\ InvalidSam2(Sam2Text(input)))
              => SubmitsOf(f, k) = {}

\* C28 with the coordinates judged as the code judges them: nothing is
\* submitted for an item with a missing binary or a text the code rejects
C28_RejectedBeforeSubmit ==
    \A c \in Executes :
       LET f == calls[c] IN
       \A k \in ItemsRead(f) :
          LET kind == f.items[k + 1]
              input == f.inputs[k + 1]
          IN  (\/ MissingBinary(kind, input)
               \/ kind = "videoGenerate" /\ RejectedSam2(Sam2Text(input)))
              => /\ SubmitsOf(f, k) = {}
                 /\ \E a \in DOMAIN f.raised : f.raised[a].item = k

\* the values an image item gives for the number of outputs: numberOfMedia
\* and numberOfImages of the generation settings and of the flat shape,
\* those that are defined
OutputCounts(input) ==
    {v \in {GroupField(input.additional, "generationSettings", "numberOfMedia"),
            GroupField(input.additional, "generationSettings", "numberOfImages"),
            input.additional.flat.numberOfMedia,
            input.additional.flat.numberOfImages} : v.t \notin {"undefined", "null"}}

\* C29: the number of outputs of an image generation is a count the item
\* gives, under either name (numberOfMedia, numberOfImages) and in either
\* shape (grouped, flat); it is the default 1 only when the item gives none.
C29_OutputCountHonoured ==
    \A c \in Executes :
       LET f == calls[c] IN
       \A k \in ItemsReadOf(f, "imageGenerate") :
          \A a \in SubmitsOf(f, k) :
             IF OutputCounts(f.inputs[k + 1]) = {}
             THEN f.ops[a].request.numberOfMedia = Num(1)
             ELSE f.ops[a].request.numberOfMedia \in OutputCounts(f.inputs[k + 1])

\* C29 for the three sources the code reads: grouped numberOfMedia, flat
\* numberOfMedia, flat numberOfImages, in that order, else 1
C29_ThreeSources ==
    \A c \in Executes :
       LET f == calls[c] IN
       \A k \in ItemsReadOf(f, "imageGenerate") :
          \A a \in SubmitsOf(f, k) :
             LET additional == f.inputs[k + 1].additional IN
             f.ops[a].request.numberOfMedia.t # "nan" =>
                f.ops[a].request.numberOfMedia =
                   FirstDefined(GroupField(additional, "generationSettings", "numberOfMedia"),
                                additional.flat.numberOfMedia,
                                FirstDefined(additional.flat.numberOfImages, Undefined, Num(1)))

\* the call obtained its credentials and its constructor returned
PastConstruction(f) ==
    /\ f.pc \notin {"idle", "creds"}
    /\ f.thrown \notin {Err("credentials"), Err("constructor")}

\* C30: a call of execute or of an option lookup that got its credentials
\* constructs exactly one client, whatever the number of its input items; a
\* run without items still constructs it, disconnects it and returns an
\* empty list; every operation of a call is issued on the client that this
\* call constructed, so no client serves two calls.
C30_OneClientPerCall ==
    /\ \A c \in Executes \cup Lookups :
          LET f == calls[c] IN
          /\ f.constructed <= 1
          /\ PastConstruction(f) => f.constructed = 1 /\ f.clientRef # NoClientRef
          /\ \A a \in DOMAIN f.ops : f.ops[a].client = f.clientRef /\ f.clientRef.call = c
          /\ (c \in Executes /\ PastConstruction(f) /\ f.items = <<>> /\ f.pc = "done") =>
                /\ f.result = "returned" /\ f.returnData = <<>>
                /\ Len(f.ops) = 1 /\ f.ops[1].op = "safeDisconnect"
    /\ \A c1, c2 \in Executes \cup Lookups :
          c1 # c2 =>
             \A a \in DOMAIN calls[c1].ops, b \in DOMAIN calls[c2].ops :
                calls[c1].ops[a].client # calls[c2].ops[b].client

\* a run without items has returned the empty list after disconnecting the
\* one client it constructed, while a lookup works on a client of its own
C30_Witness ==
    \E c1 \in Executes, c2 \in Lookups :
       /\ calls[c1].pc = "done" /\ calls[c1].items = <<>> /\ calls[c1].result = "returned"
       /\ calls[c1].constructed = 1 /\ calls[c1].returnData = <<>>
       /\ calls[c1].ops # <<>>
       /\ calls[c2].pc = "models" /\ calls[c2].constructed = 1
       /\ calls[c2].ops # <<>>

====
